---------------------------- MODULE Spec2Model ----------------------------
(***************************************************************************)
(* WireViz harness model: the Connector and Cable entities of data.py      *)
(* (construction, activate_pin, connect, get_qty_multiplier) and the       *)
(* nested table synthesizer of graphviz_html.py.                           *)
(*                                                                         *)
(* Python values are tagged records: NoneV, IntV(n), BoolV(b), StrV(s),    *)
(* ListV(seq), TupleV(seq).  Text that the code takes apart is a sequence: *)
(* TextV(chars) for gauge and length texts, tokens for markup fragments.   *)
(***************************************************************************)
EXTENDS Integers, Sequences, FiniteSets, TLC

VARIABLES
    cable_cfg,     \* the configuration mapping a Cable is constructed from
    cable,         \* the Cable object: not built, failed, or its fields
    conn_cfg,      \* the configuration mapping a Connector is constructed from
    connector,     \* the Connector object: not built, failed, or its fields
    rows,          \* the rows argument of nested_html_table
    html,          \* the list nested_html_table returned
    last,          \* the last call made: operation, arguments, outcome
    activated,     \* history: the pins the caller has passed to activate_pin
    arg,           \* the argument of a call of Image, Options, expand or merge_with_existing
    result         \* what that call returned, or a second construction built

vars == <<cable_cfg, cable, conn_cfg, connector, rows, html, last, activated, arg, result>>

---------------------------------------------------------------------------
\* Bounds of the model

MaxWirecount == 5
MaxColors == 2
MaxTuple == 2
MaxConnections == 2
MaxPins == 2
MaxFragments == 4
MaxTextLen == 3
MaxListLen == 2
MaxComponents == 2

---------------------------------------------------------------------------
\* Python values

NoneV == [t |-> "none"]
IntV(n) == [t |-> "int", v |-> n]
BoolV(b) == [t |-> "bool", v |-> b]
StrV(s) == [t |-> "str", v |-> s]
TextV(cs) == [t |-> "text", v |-> cs]
ListV(s) == [t |-> "list", v |-> s]
TupleV(s) == [t |-> "tuple", v |-> s]
\* a float m / 10^e, e the number of decimals kept (no trailing zero)
FloatV(m, e) == [t |-> "float", v |-> m, e |-> e]

\* Python truth value of a tagged value (bool(x))
Truthy(x) ==
    CASE x.t = "none" -> FALSE
      [] x.t = "int" -> x.v /= 0
      [] x.t = "bool" -> x.v
      [] x.t = "float" -> x.v /= 0
      [] x.t = "str" -> x.v /= ""
      [] x.t = "text" -> x.v /= <<>>
      [] x.t = "list" -> x.v /= <<>>
      [] x.t = "tuple" -> x.v /= <<>>
      [] OTHER -> TRUE

Max2(a, b) == IF a >= b THEN a ELSE b

\* s * m for a Python list s and an int m
RECURSIVE Repeat(_, _)
Repeat(s, m) == IF m <= 0 THEN <<>> ELSE s \o Repeat(s, m - 1)

\* s[:n] for a Python list s and an int n >= 0
Prefix(s, n) == SubSeq(s, 1, IF n <= Len(s) THEN n ELSE Len(s))

\* x in s for a Python list s
InList(x, s) == \E i \in 1..Len(s) : s[i] = x

\* Outcomes of a call: a returned value or a raised exception
Ok(v) == [ok |-> TRUE, val |-> v]
Raise(type, msg, args) == [ok |-> FALSE, exc |-> type, msg |-> msg, args |-> args]

\* the designators of the model for which name[0:2] == "__"
AutoNames == {"__X2", "__W2"}

NotBuilt == [st |-> "new"]
Failed(err) == [st |-> "failed", err |-> err]

---------------------------------------------------------------------------
\* Python str operations, on a text as its sequence of characters

\* s.replace(pat, rep): every occurrence, left to right, not overlapping
RECURSIVE Replace(_, _, _)
Replace(s, pat, rep) ==
    IF Len(s) < Len(pat) THEN s
    ELSE IF SubSeq(s, 1, Len(pat)) = pat
         THEN rep \o Replace(SubSeq(s, Len(pat) + 1, Len(s)), pat, rep)
         ELSE <<s[1]>> \o Replace(Tail(s), pat, rep)

\* s.split(" "): the pieces between single spaces, empty pieces kept
RECURSIVE Split(_)
Split(s) ==
    IF \A i \in 1..Len(s) : s[i] /= " " THEN <<s>>
    ELSE LET i == CHOOSE k \in 1..Len(s) :
                      s[k] = " " /\ \A j \in 1..(k - 1) : s[j] /= " "
         IN <<SubSeq(s, 1, i - 1)>> \o Split(SubSeq(s, i + 1, Len(s)))

\* c.upper() for one character
UpperChar(c) ==
    CASE c = "a" -> "A"
      [] c = "w" -> "W"
      [] c = "g" -> "G"
      [] c = "m" -> "M"
      [] c = "x" -> "X"
      [] OTHER -> c

Upper(s) == [i \in 1..Len(s) |-> UpperChar(s[i])]

Digits == {"0", "1", "2", "3", "4", "5", "6", "7", "8", "9"}

DigitVal(c) ==
    CASE c = "0" -> 0 [] c = "1" -> 1 [] c = "2" -> 2 [] c = "3" -> 3
      [] c = "4" -> 4 [] c = "5" -> 5 [] c = "6" -> 6 [] c = "7" -> 7
      [] c = "8" -> 8 [] c = "9" -> 9

IsDigits(s) == \A i \in 1..Len(s) : s[i] \in Digits

RECURSIVE NatOf(_)
NatOf(s) == IF s = <<>> THEN 0 ELSE 10 * NatOf(SubSeq(s, 1, Len(s) - 1)) + DigitVal(s[Len(s)])

RECURSIVE Pow10(_)
Pow10(e) == IF e = 0 THEN 1 ELSE 10 * Pow10(e - 1)

\* the float m / 10^e without trailing zero decimals
RECURSIVE NormFloat(_, _)
NormFloat(m, e) ==
    IF e > 0 /\ m % 10 = 0 THEN NormFloat(m \div 10, e - 1) ELSE FloatV(m, e)

\* float(s) accepts s: digits with at most one ".", at least one digit
\* (the texts of the model hold no sign, exponent, underscore, inf or nan)
IsFloatText(s) ==
    /\ \E i \in 1..Len(s) : s[i] \in Digits
    /\ \A i \in 1..Len(s) : s[i] \in Digits \cup {"."}
    /\ Cardinality({i \in 1..Len(s) : s[i] = "."}) <= 1

\* float(s) for an accepted s
FloatOf(s) ==
    IF IsDigits(s) THEN FloatV(NatOf(s), 0)
    ELSE LET d == CHOOSE i \in 1..Len(s) : s[i] = "."
             whole == SubSeq(s, 1, d - 1)
             frac == SubSeq(s, d + 1, Len(s))
         IN NormFloat(NatOf(whole) * Pow10(Len(frac)) + NatOf(frac), Len(frac))

\* a * b for Python numbers (int or float)
Mul(a, b) ==
    IF a.t = "int" /\ b.t = "int" THEN IntV(a.v * b.v)
    ELSE LET ea == IF a.t = "float" THEN a.e ELSE 0
             eb == IF b.t = "float" THEN b.e ELSE 0
         IN NormFloat(a.v * b.v, ea + eb)

---------------------------------------------------------------------------
\* wireviz.colors.COLOR_CODES: the standard color-code tables (two of them)

COLOR_CODES ==
    [BW |-> <<"BK", "WH">>,
     T568A |-> <<"WHGN", "GN", "WHOG", "BU", "WHBU", "OG", "WHBN", "BN">>]

---------------------------------------------------------------------------
\* helper.int2tuple

int2tuple(inp) == IF inp.t = "tuple" THEN inp.v ELSE <<inp>>

---------------------------------------------------------------------------
\* Cable (data.py)

Chars_mm2 == <<"m", "m", "2">>
Chars_mmSq == <<"m", "m", "sup2">>
Chars_AWG == <<"A", "W", "G">>
Chars_m == <<"m">>

\* CableGauge with the unit of the text kept as written
CableGaugeUnitAsWritten(cfg) ==
    IF cfg.gauge.t = "text"
    THEN LET parts == Split(cfg.gauge.v)
         IN IF Len(parts) /= 2
            THEN Raise("Exception",
                       "Cable {name} gauge={gauge} - Gauge must be a number, or number and unit separated by a space",
                       <<StrV(cfg.name), cfg.gauge>>)
            ELSE Ok([gauge |-> TextV(parts[1]), gauge_unit |-> TextV(parts[2])])
    ELSE IF cfg.gauge.t /= "none"
         THEN Ok([gauge |-> cfg.gauge,
                  gauge_unit |-> IF cfg.gauge_unit.t = "none"
                                 THEN TextV(Chars_mmSq)
                                 ELSE cfg.gauge_unit])
         ELSE Ok([gauge |-> cfg.gauge, gauge_unit |-> cfg.gauge_unit])

\* __post_init__, gauge: "<number> <unit>", a bare number, or nothing
CableGauge(cfg) ==
    IF cfg.gauge.t = "text"
    THEN LET parts == Split(cfg.gauge.v)
         IN IF Len(parts) /= 2
            THEN Raise("Exception",
                       "Cable {name} gauge={gauge} - Gauge must be a number, or number and unit separated by a space",
                       <<StrV(cfg.name), cfg.gauge>>)
            ELSE LET g == parts[1]
                     u == parts[2]
                 IN Ok([gauge |-> TextV(g),
                        gauge_unit |-> IF Upper(u) = Chars_AWG
                                       THEN TextV(Upper(u))
                                       ELSE TextV(Replace(u, Chars_mm2, Chars_mmSq))])
    ELSE IF cfg.gauge.t /= "none"
         THEN Ok([gauge |-> cfg.gauge,
                  gauge_unit |-> IF cfg.gauge_unit.t = "none"
                                 THEN TextV(Chars_mmSq)
                                 ELSE cfg.gauge_unit])
         ELSE Ok([gauge |-> cfg.gauge, gauge_unit |-> cfg.gauge_unit])

\* CableLength taking the first part of the text as it is, unparsed
CableLengthUnparsed(cfg) ==
    IF cfg.length.t = "text"
    THEN LET parts == Split(cfg.length.v)
         IN IF Len(parts) /= 2
            THEN Raise("Exception",
                       "Cable {name} length={length} - Length must be a number, or number and unit separated by a space",
                       <<StrV(cfg.name), cfg.length>>)
            ELSE Ok([length |-> TextV(parts[1]), length_unit |-> TextV(parts[2])])
    ELSE IF ~(cfg.length.t \in {"int", "float"})
         THEN Raise("Exception", "Cable {name} length has a non-numeric value",
                    <<StrV(cfg.name)>>)
         ELSE Ok([length |-> cfg.length,
                  length_unit |-> IF cfg.length_unit.t = "none"
                                  THEN TextV(Chars_m)
                                  ELSE cfg.length_unit])

\* __post_init__, length: "<number> <unit>" or a bare number
CableLength(cfg) ==
    IF cfg.length.t = "text"
    THEN LET parts == Split(cfg.length.v)
         IN IF Len(parts) /= 2 \/ ~IsFloatText(parts[1])
            THEN Raise("Exception",
                       "Cable {name} length={length} - Length must be a number, or number and unit separated by a space",
                       <<StrV(cfg.name), cfg.length>>)
            ELSE Ok([length |-> FloatOf(parts[1]), length_unit |-> TextV(parts[2])])
    ELSE IF ~(cfg.length.t \in {"int", "float"})
         THEN Raise("Exception", "Cable {name} length has a non-numeric value",
                    <<StrV(cfg.name)>>)
         ELSE Ok([length |-> cfg.length,
                  length_unit |-> IF cfg.length_unit.t = "none"
                                  THEN TextV(Chars_m)
                                  ELSE cfg.length_unit])

\* LoopColors with the looping one repetition short
LoopColorsShort(colors, wirecount) ==
    LET looped == IF wirecount > Len(colors)
                  THEN Repeat(colors, wirecount \div Len(colors))
                  ELSE colors
    IN Prefix(looped, wirecount)

\* __post_init__: the color code loops around when there are more wires
\* than colors, and the excess after looping is cut off
LoopColors(colors, wirecount) ==
    LET looped == IF wirecount > Len(colors)
                  THEN Repeat(colors, wirecount \div Len(colors) + 1)
                  ELSE colors
    IN Prefix(looped, wirecount)

\* CableColors with a color code that is not in the table taken as none
CableColorsAnyCode(cfg) ==
    IF Truthy(cfg.wirecount)
    THEN IF cfg.colors /= <<>>
         THEN Ok([wirecount |-> cfg.wirecount.v,
                  colors |-> LoopColors(cfg.colors, cfg.wirecount.v)])
         ELSE IF Truthy(cfg.color_code) /\ cfg.color_code.v \in DOMAIN COLOR_CODES
              THEN Ok([wirecount |-> cfg.wirecount.v,
                       colors |-> LoopColors(COLOR_CODES[cfg.color_code.v],
                                             cfg.wirecount.v)])
              ELSE Ok([wirecount |-> cfg.wirecount.v,
                       colors |-> LoopColors(Repeat(<<"">>, cfg.wirecount.v),
                                             cfg.wirecount.v)])
    ELSE IF cfg.colors = <<>>
         THEN Raise("Exception",
                    "Unknown number of wires. Must specify wirecount or colors (implicit length)",
                    <<>>)
         ELSE Ok([wirecount |-> Len(cfg.colors), colors |-> cfg.colors])

\* CableColors with the wires counted from the color code when neither
\* wirecount nor colors is given
CableColorsCodeLength(cfg) ==
    IF Truthy(cfg.wirecount)
    THEN IF cfg.colors /= <<>>
         THEN Ok([wirecount |-> cfg.wirecount.v,
                  colors |-> LoopColors(cfg.colors, cfg.wirecount.v)])
         ELSE IF Truthy(cfg.color_code)
              THEN IF cfg.color_code.v \notin DOMAIN COLOR_CODES
                   THEN Raise("Exception", "Unknown color code", <<>>)
                   ELSE Ok([wirecount |-> cfg.wirecount.v,
                            colors |-> LoopColors(COLOR_CODES[cfg.color_code.v],
                                                  cfg.wirecount.v)])
              ELSE Ok([wirecount |-> cfg.wirecount.v,
                       colors |-> LoopColors(Repeat(<<"">>, cfg.wirecount.v),
                                             cfg.wirecount.v)])
    ELSE IF cfg.colors = <<>>
         THEN IF Truthy(cfg.color_code) /\ cfg.color_code.v \in DOMAIN COLOR_CODES
              THEN Ok([wirecount |-> Len(COLOR_CODES[cfg.color_code.v]),
                       colors |-> COLOR_CODES[cfg.color_code.v]])
              ELSE Raise("Exception",
                         "Unknown number of wires. Must specify wirecount or colors (implicit length)",
                         <<>>)
         ELSE Ok([wirecount |-> Len(cfg.colors), colors |-> cfg.colors])

\* __post_init__, wirecount and colors
CableColors(cfg) ==
    IF Truthy(cfg.wirecount)
    THEN IF cfg.colors /= <<>>
         THEN Ok([wirecount |-> cfg.wirecount.v,
                  colors |-> LoopColors(cfg.colors, cfg.wirecount.v)])
         ELSE IF Truthy(cfg.color_code)
              THEN IF cfg.color_code.v \notin DOMAIN COLOR_CODES
                   THEN Raise("Exception", "Unknown color code", <<>>)
                   ELSE Ok([wirecount |-> cfg.wirecount.v,
                            colors |-> LoopColors(COLOR_CODES[cfg.color_code.v],
                                                  cfg.wirecount.v)])
              ELSE Ok([wirecount |-> cfg.wirecount.v,
                       colors |-> LoopColors(Repeat(<<"">>, cfg.wirecount.v),
                                             cfg.wirecount.v)])
    ELSE IF cfg.colors = <<>>
         THEN Raise("Exception",
                    "Unknown number of wires. Must specify wirecount or colors (implicit length)",
                    <<>>)
         ELSE Ok([wirecount |-> Len(cfg.colors), colors |-> cfg.colors])

\* __post_init__: "s" is no wire label of a shielded cable
CableShield(cfg) ==
    IF cfg.wirelabels /= <<>> /\ Truthy(cfg.shield) /\ InList("s", cfg.wirelabels)
    THEN Raise("Exception", "\"s\" may not be used as a wire label for a shielded cable.", <<>>)
    ELSE Ok(TRUE)

IdFields(cfg) == <<cfg.manufacturer, cfg.mpn, cfg.supplier, cfg.spn, cfg.pn>>

\* CableIdFields without the comparison of the list lengths to the wirecount
CableIdFieldsAnyLength(cfg, wirecount) ==
    LET f == IdFields(cfg)
    IN IF \E i \in 1..Len(f) : f[i].t = "list" /\ cfg.category /= StrV("bundle")
       THEN Raise("Exception", "lists of part data are only supported for bundles", <<>>)
       ELSE Ok(TRUE)

\* __post_init__: lists of part numbers need a bundle and match the wirecount;
\* the first offending field, in field order, raises
CableIdFields(cfg, wirecount) ==
    LET f == IdFields(cfg)
        bad(i) == f[i].t = "list" /\
                  (cfg.category /= StrV("bundle") \/ Len(f[i].v) /= wirecount)
    IN IF \E i \in 1..Len(f) : bad(i)
       THEN LET i == CHOOSE k \in 1..Len(f) : bad(k) /\ \A j \in 1..(k - 1) : ~bad(j)
            IN IF cfg.category = StrV("bundle")
               THEN Raise("Exception", "lists of part data must match wirecount", <<>>)
               ELSE Raise("Exception", "lists of part data are only supported for bundles", <<>>)
       ELSE Ok(TRUE)

\* AdditionalComponent(**item): type is the one field without a default
AdditionalComponentNew(item) ==
    IF item.t /= "dict"
    THEN Raise("TypeError", "argument after ** must be a mapping", <<>>)
    ELSE IF item.type.t = "absent"
    THEN Raise("TypeError", "missing 1 required positional argument: 'type'", <<>>)
    ELSE Ok([t |-> "AdditionalComponent", type |-> item.type, qty |-> IntV(1)])

\* AdditionalComponentsLoop making a component of every item, whatever it is
RECURSIVE AdditionalComponentsLoopEveryItem(_, _)
AdditionalComponentsLoopEveryItem(items, i) ==
    IF i > Len(items) THEN [items |-> items, out |-> Ok(NoneV)]
    ELSE LET r == AdditionalComponentNew(items[i])
         IN IF r.ok
            THEN AdditionalComponentsLoopEveryItem([items EXCEPT ![i] = r.val], i + 1)
            ELSE [items |-> items, out |-> r]

\* __post_init__, additional_components: from item i on, each item that is a
\* dict is replaced in the list by the AdditionalComponent made of it; the
\* list, which is the list of the configuration mapping, as it is left, and
\* the exception if one was raised
RECURSIVE AdditionalComponentsLoop(_, _)
AdditionalComponentsLoop(items, i) ==
    IF i > Len(items) THEN [items |-> items, out |-> Ok(NoneV)]
    ELSE IF items[i].t = "dict"
    THEN LET r == AdditionalComponentNew(items[i])
         IN IF r.ok
            THEN AdditionalComponentsLoop([items EXCEPT ![i] = r.val], i + 1)
            ELSE [items |-> items, out |-> r]
    ELSE AdditionalComponentsLoop(items, i + 1)

\* Cable.__post_init__ up to the loop over additional_components
CableFields(cfg) ==
    LET g == CableGauge(cfg)
        l == CableLength(cfg)
        c == CableColors(cfg)
        s == CableShield(cfg)
    IN IF ~g.ok THEN Failed(g)
       ELSE IF ~l.ok THEN Failed(l)
       ELSE IF ~c.ok THEN Failed(c)
       ELSE IF ~s.ok THEN Failed(s)
       ELSE LET i == CableIdFields(cfg, c.val.wirecount)
            IN IF ~i.ok THEN Failed(i)
               ELSE [st |-> "ok",
                     name |-> cfg.name,
                     category |-> cfg.category,
                     gauge |-> g.val.gauge,
                     gauge_unit |-> g.val.gauge_unit,
                     length |-> l.val.length,
                     length_unit |-> l.val.length_unit,
                     connections |-> <<>>,
                     wirecount |-> c.val.wirecount,
                     colors |-> c.val.colors,
                     show_name |-> IF cfg.show_name.t = "none"
                                   THEN cfg.name \notin AutoNames
                                   ELSE cfg.show_name.v,
                     show_wirenumbers |-> IF cfg.show_wirenumbers.t = "none"
                                          THEN cfg.category /= StrV("bundle")
                                          ELSE cfg.show_wirenumbers.v,
                     additional_components |-> cfg.additional_components]

\* Cable.__post_init__: the object built from a configuration, or the failure
CablePostInit(cfg) ==
    LET c == CableFields(cfg)
    IN IF c.st /= "ok" THEN c
       ELSE LET a == AdditionalComponentsLoop(cfg.additional_components, 1)
            IN IF a.out.ok THEN [c EXCEPT !.additional_components = a.items]
               ELSE Failed(a.out)

\* the configuration mapping after Cable(**cfg): its additional_components
\* list is the one the loop of __post_init__ wrote into
CableMappingAfter(cfg) ==
    IF CableFields(cfg).st /= "ok" THEN cfg
    ELSE [cfg EXCEPT !.additional_components =
                         AdditionalComponentsLoop(cfg.additional_components, 1).items]

\* Connection (data.py)
Connection(from_name, from_pin, via_port, to_name, to_pin) ==
    [from_name |-> from_name, from_pin |-> from_pin, via_port |-> via_port,
     to_name |-> to_name, to_pin |-> to_pin]

\* CableConnect with the pins of the two ends exchanged
CableConnectSwapped(connections, from_name, from_pin, via_wire, to_name, to_pin) ==
    LET f == int2tuple(from_pin)
        v == int2tuple(via_wire)
        t == int2tuple(to_pin)
    IN IF Len(f) /= Len(t)
       THEN [connections |-> connections,
             out |-> Raise("Exception",
                           "from_pin must have the same number of elements as to_pin", <<>>)]
       ELSE LET n == IF Len(v) < Len(f) THEN Len(v) ELSE Len(f)
                new == [i \in 1..n |-> Connection(from_name, t[i], v[i], to_name, f[i])]
            IN [connections |-> connections \o new,
                out |-> IF Len(v) < Len(f)
                        THEN Raise("IndexError", "tuple index out of range", <<>>)
                        ELSE Ok(NoneV)]

\* CableConnect inserting at the front of the list
CableConnectPrepend(connections, from_name, from_pin, via_wire, to_name, to_pin) ==
    LET f == int2tuple(from_pin)
        v == int2tuple(via_wire)
        t == int2tuple(to_pin)
    IN IF Len(f) /= Len(t)
       THEN [connections |-> connections,
             out |-> Raise("Exception",
                           "from_pin must have the same number of elements as to_pin", <<>>)]
       ELSE LET n == IF Len(v) < Len(f) THEN Len(v) ELSE Len(f)
                new == [i \in 1..n |-> Connection(from_name, f[i], v[i], to_name, t[i])]
            IN [connections |-> new \o connections,
                out |-> IF Len(v) < Len(f)
                        THEN Raise("IndexError", "tuple index out of range", <<>>)
                        ELSE Ok(NoneV)]

\* Cable.connect: the connections after the call and its outcome.  The loop
\* appends one Connection per index of from_pin and stops, with what it has
\* appended so far, at the first index via_wire does not have.
CableConnect(connections, from_name, from_pin, via_wire, to_name, to_pin) ==
    LET f == int2tuple(from_pin)
        v == int2tuple(via_wire)
        t == int2tuple(to_pin)
    IN IF Len(f) /= Len(t)
       THEN [connections |-> connections,
             out |-> Raise("Exception",
                           "from_pin must have the same number of elements as to_pin", <<>>)]
       ELSE LET n == IF Len(v) < Len(f) THEN Len(v) ELSE Len(f)
                new == [i \in 1..n |-> Connection(from_name, f[i], v[i], to_name, t[i])]
            IN [connections |-> connections \o new,
                out |-> IF Len(v) < Len(f)
                        THEN Raise("IndexError", "tuple index out of range", <<>>)
                        ELSE Ok(NoneV)]

\* CableGetQtyMultiplier with total_length not multiplied by the wirecount
CableGetQtyTotalIsLength(c, qty_multiplier) ==
    IF ~Truthy(qty_multiplier) THEN Ok(IntV(1))
    ELSE IF qty_multiplier = StrV("wirecount") THEN Ok(IntV(c.wirecount))
    ELSE IF qty_multiplier = StrV("terminations") THEN Ok(IntV(Len(c.connections)))
    ELSE IF qty_multiplier = StrV("length") THEN Ok(c.length)
    ELSE IF qty_multiplier = StrV("total_length") THEN Ok(c.length)
    ELSE Raise("ValueError", "invalid qty multiplier parameter for cable {qty_multiplier}",
               <<qty_multiplier>>)

\* CableGetQtyMultiplier with no multiplier for a key it does not know
CableGetQtyDefaultOne(c, qty_multiplier) ==
    IF ~Truthy(qty_multiplier) THEN Ok(IntV(1))
    ELSE IF qty_multiplier = StrV("wirecount") THEN Ok(IntV(c.wirecount))
    ELSE IF qty_multiplier = StrV("terminations") THEN Ok(IntV(Len(c.connections)))
    ELSE IF qty_multiplier = StrV("length") THEN Ok(c.length)
    ELSE IF qty_multiplier = StrV("total_length") THEN Ok(Mul(c.length, IntV(c.wirecount)))
    ELSE Ok(IntV(1))

\* Cable.get_qty_multiplier
CableGetQtyMultiplier(c, qty_multiplier) ==
    IF ~Truthy(qty_multiplier) THEN Ok(IntV(1))
    ELSE IF qty_multiplier = StrV("wirecount") THEN Ok(IntV(c.wirecount))
    ELSE IF qty_multiplier = StrV("terminations") THEN Ok(IntV(Len(c.connections)))
    ELSE IF qty_multiplier = StrV("length") THEN Ok(c.length)
    ELSE IF qty_multiplier = StrV("total_length") THEN Ok(Mul(c.length, IntV(c.wirecount)))
    ELSE Raise("ValueError", "invalid qty multiplier parameter for cable {qty_multiplier}",
               <<qty_multiplier>>)

---------------------------------------------------------------------------
\* Connector (data.py)

\* d[k] = v for a Python dict d, a function on its keys
DictSet(d, k, v) == [x \in (DOMAIN d) \cup {k} |-> IF x = k THEN v ELSE d[x]]

\* sum(d.values()) for a dict of bools: True counts 1, False 0
SumValues(d) == Cardinality({k \in DOMAIN d : d[k]})

\* len(set(s)) for a Python list s
LenSet(s) == Cardinality({s[i] : i \in 1..Len(s)})

\* ActivatePinFields with the flags telling the side of the last call only
ActivatePinFieldsLastSide(c, pin, side) ==
    [visible_pins |-> DictSet(c.visible_pins, pin, TRUE),
     ports_left |-> side = "LEFT",
     ports_right |-> side = "RIGHT"]

\* ActivatePinFields hiding a pin that is activated again
ActivatePinFieldsToggle(c, pin, side) ==
    [visible_pins |-> DictSet(c.visible_pins, pin,
                              IF pin \in DOMAIN c.visible_pins
                              THEN ~c.visible_pins[pin] ELSE TRUE),
     ports_left |-> IF side = "LEFT" THEN TRUE ELSE c.ports_left,
     ports_right |-> IF side = "RIGHT" THEN TRUE ELSE c.ports_right]

\* Connector.activate_pin, on the three fields it writes
ActivatePinFields(c, pin, side) ==
    [visible_pins |-> DictSet(c.visible_pins, pin, TRUE),
     ports_left |-> IF side = "LEFT" THEN TRUE ELSE c.ports_left,
     ports_right |-> IF side = "RIGHT" THEN TRUE ELSE c.ports_right]

\* Connector.activate_pin
ActivatePin(c, pin, side) ==
    LET f == ActivatePinFields(c, pin, side)
    IN [c EXCEPT !.visible_pins = f.visible_pins,
                 !.ports_left = f.ports_left,
                 !.ports_right = f.ports_right]

\* ConnectorPincount with a simple connector keeping the count of its lists
ConnectorPincountSimpleKept(cfg) ==
    LET simple == cfg.style = StrV("simple")
    IN IF simple /\ Truthy(cfg.pincount) /\ cfg.pincount.v > 1
       THEN Raise("Exception",
                  "Connectors with style set to simple may only have one pin", <<>>)
       ELSE IF Truthy(cfg.pincount) THEN Ok(cfg.pincount.v)
            ELSE LET n == Max2(Len(cfg.pins),
                               Max2(Len(cfg.pinlabels), Len(cfg.pincolors)))
                 IN IF n = 0
                    THEN IF simple THEN Ok(1)
                         ELSE Raise("Exception",
                                    "You need to specify at least one, pincount, pins, pinlabels, or pincolors",
                                    <<>>)
                    ELSE Ok(n)

\* ConnectorPincount with the pins left out of the maximum
ConnectorPincountNoPins(cfg) ==
    LET simple == cfg.style = StrV("simple")
    IN IF simple /\ Truthy(cfg.pincount) /\ cfg.pincount.v > 1
       THEN Raise("Exception",
                  "Connectors with style set to simple may only have one pin", <<>>)
       ELSE LET given == IF simple THEN IntV(1) ELSE cfg.pincount
            IN IF Truthy(given) THEN Ok(given.v)
               ELSE LET n == Max2(Len(cfg.pinlabels), Len(cfg.pincolors))
                    IN IF n = 0
                       THEN Raise("Exception",
                                  "You need to specify at least one, pincount, pins, pinlabels, or pincolors",
                                  <<>>)
                       ELSE Ok(n)

\* ConnectorPincount with pincolors left out of the maximum
ConnectorPincountNoColors(cfg) ==
    LET simple == cfg.style = StrV("simple")
    IN IF simple /\ Truthy(cfg.pincount) /\ cfg.pincount.v > 1
       THEN Raise("Exception",
                  "Connectors with style set to simple may only have one pin", <<>>)
       ELSE LET given == IF simple THEN IntV(1) ELSE cfg.pincount
            IN IF Truthy(given) THEN Ok(given.v)
               ELSE LET n == Max2(Len(cfg.pins), Len(cfg.pinlabels))
                    IN IF n = 0
                       THEN Raise("Exception",
                                  "You need to specify at least one, pincount, pins, pinlabels, or pincolors",
                                  <<>>)
                       ELSE Ok(n)

\* __post_init__, pincount: forced to 1 for style simple, else as given, else
\* the longest of pins, pinlabels and pincolors
ConnectorPincount(cfg) ==
    LET simple == cfg.style = StrV("simple")
    IN IF simple /\ Truthy(cfg.pincount) /\ cfg.pincount.v > 1
       THEN Raise("Exception",
                  "Connectors with style set to simple may only have one pin", <<>>)
       ELSE LET given == IF simple THEN IntV(1) ELSE cfg.pincount
            IN IF Truthy(given) THEN Ok(given.v)
               ELSE LET n == Max2(Len(cfg.pins),
                                  Max2(Len(cfg.pinlabels), Len(cfg.pincolors)))
                    IN IF n = 0
                       THEN Raise("Exception",
                                  "You need to specify at least one, pincount, pins, pinlabels, or pincolors",
                                  <<>>)
                       ELSE Ok(n)

\* ConnectorPins without the test for unique pins
ConnectorPinsUnchecked(cfg, pincount) ==
    Ok(IF cfg.pins = <<>> THEN [i \in 1..pincount |-> i] ELSE cfg.pins)

\* __post_init__, pins: sequential when not given, and unique
ConnectorPins(cfg, pincount) ==
    LET pins == IF cfg.pins = <<>> THEN [i \in 1..pincount |-> i] ELSE cfg.pins
    IN IF Len(pins) /= LenSet(pins)
       THEN Raise("Exception", "Pins are not unique", <<>>)
       ELSE Ok(pins)

\* ConnectorLoops activating the first pin of each loop only
RECURSIVE ConnectorLoopsFirstPin(_, _, _)
ConnectorLoopsFirstPin(c, loops, k) ==
    IF k > Len(loops) THEN c
    ELSE LET loop == loops[k]
         IN IF Len(loop) /= 2
            THEN Failed(Raise("Exception", "Loops must be between exactly two pins!", <<>>))
            ELSE IF \E i \in 1..2 : ~InList(loop[i], c.pins)
            THEN Failed(Raise("Exception", "Unknown loop pin {pin} for connector {name}!",
                              <<StrV(c.name)>>))
            ELSE ConnectorLoopsFirstPin(ActivatePin(c, loop[1], "None"), loops, k + 1)

\* __post_init__, loops: from loop number k on, each loop has two pins of
\* the connector, and each loop pin is activated
RECURSIVE ConnectorLoops(_, _, _)
ConnectorLoops(c, loops, k) ==
    IF k > Len(loops) THEN c
    ELSE LET loop == loops[k]
         IN IF Len(loop) /= 2
            THEN Failed(Raise("Exception", "Loops must be between exactly two pins!", <<>>))
            ELSE IF \E i \in 1..2 : ~InList(loop[i], c.pins)
            THEN LET i == CHOOSE j \in 1..2 :
                              ~InList(loop[j], c.pins) /\
                              \A h \in 1..(j - 1) : InList(loop[h], c.pins)
                 IN Failed(Raise("Exception",
                                 "Unknown loop pin {pin} for connector {name}!",
                                 <<IntV(loop[i]), StrV(c.name)>>))
            ELSE ConnectorLoops(ActivatePin(ActivatePin(c, loop[1], "None"), loop[2], "None"),
                                loops, k + 1)

\* Connector.__post_init__ up to the loop over additional_components
ConnectorFields(cfg) ==
    LET n == ConnectorPincount(cfg)
    IN IF ~n.ok THEN Failed(n)
       ELSE LET p == ConnectorPins(cfg, n.val)
            IN IF ~p.ok THEN Failed(p)
               ELSE ConnectorLoops(
                        [st |-> "ok",
                         name |-> cfg.name,
                         style |-> cfg.style,
                         pincount |-> n.val,
                         pins |-> p.val,
                         pinlabels |-> cfg.pinlabels,
                         pincolors |-> cfg.pincolors,
                         loops |-> cfg.loops,
                         show_name |-> IF cfg.show_name.t = "none"
                                       THEN cfg.style /= StrV("simple") /\
                                            cfg.name \notin AutoNames
                                       ELSE cfg.show_name.v,
                         show_pincount |-> IF cfg.show_pincount.t = "none"
                                           THEN cfg.style /= StrV("simple")
                                           ELSE cfg.show_pincount.v,
                         visible_pins |-> <<>>,
                         ports_left |-> FALSE,
                         ports_right |-> FALSE,
                         additional_components |-> cfg.additional_components],
                        cfg.loops, 1)

\* Connector.__post_init__: the object built from a configuration, or the failure
ConnectorPostInit(cfg) ==
    LET c == ConnectorFields(cfg)
    IN IF c.st /= "ok" THEN c
       ELSE LET a == AdditionalComponentsLoop(cfg.additional_components, 1)
            IN IF a.out.ok THEN [c EXCEPT !.additional_components = a.items]
               ELSE Failed(a.out)

\* the configuration mapping after Connector(**cfg): its additional_components
\* list is the one the loop of __post_init__ wrote into
ConnectorMappingAfter(cfg) ==
    IF ConnectorFields(cfg).st /= "ok" THEN cfg
    ELSE [cfg EXCEPT !.additional_components =
                         AdditionalComponentsLoop(cfg.additional_components, 1).items]

\* ConnectorGetQtyMultiplier with unpopulated not floored at zero
ConnectorGetQtyNoFloor(c, qty_multiplier) ==
    IF ~Truthy(qty_multiplier) THEN Ok(IntV(1))
    ELSE IF qty_multiplier = StrV("pincount") THEN Ok(IntV(c.pincount))
    ELSE IF qty_multiplier = StrV("populated") THEN Ok(IntV(SumValues(c.visible_pins)))
    ELSE IF qty_multiplier = StrV("unpopulated")
         THEN Ok(IntV(c.pincount - SumValues(c.visible_pins)))
    ELSE Raise("ValueError", "invalid qty multiplier parameter for connector {qty_multiplier}",
               <<qty_multiplier>>)

\* Connector.get_qty_multiplier
ConnectorGetQtyMultiplier(c, qty_multiplier) ==
    IF ~Truthy(qty_multiplier) THEN Ok(IntV(1))
    ELSE IF qty_multiplier = StrV("pincount") THEN Ok(IntV(c.pincount))
    ELSE IF qty_multiplier = StrV("populated") THEN Ok(IntV(SumValues(c.visible_pins)))
    ELSE IF qty_multiplier = StrV("unpopulated")
         THEN Ok(IntV(Max2(0, c.pincount - SumValues(c.visible_pins))))
    ELSE Raise("ValueError", "invalid qty multiplier parameter for connector {qty_multiplier}",
               <<qty_multiplier>>)

---------------------------------------------------------------------------
\* PartInfo (suppliers.py); a dict is a record of its possible keys, a key it
\* does not hold having the value Absent

\* d.get(key)
DictGet(d, key) == IF d[key].t = "absent" THEN NoneV ELSE d[key]

\* the keys merge_with_existing fills from the field of PartInfo of the same name
FilledKeys == {"manufacturer", "mpn", "supplier", "spn", "description"}

\* PartInfo.merge_with_existing(existing_data): the dict returned, a copy of
\* existing_data with the fetched values put in
merge_with_existing(self, existing_data) ==
    [key \in DOMAIN existing_data |->
        IF key \in FilledKeys
        THEN IF ~Truthy(DictGet(existing_data, key)) /\ Truthy(self[key])
             THEN self[key] ELSE existing_data[key]
        ELSE IF key = "_image_url"
        THEN IF Truthy(self.image_url) THEN self.image_url ELSE existing_data[key]
        ELSE IF key = "_datasheet_url"
        THEN IF Truthy(self.datasheet_url) THEN self.datasheet_url ELSE existing_data[key]
        ELSE existing_data[key]]

---------------------------------------------------------------------------
\* expand (helper.py)

\* the decimal digits of a natural number
RECURSIVE NatText(_)
NatText(n) ==
    LET d == CHOOSE c \in Digits : DigitVal(c) = n % 10
    IN IF n < 10 THEN <<d>> ELSE Append(NatText(n \div 10), d)

\* str(e) of an int or of a text
PyStr(e) ==
    IF e.t = "int"
    THEN IF e.v < 0 THEN <<"-">> \o NatText(0 - e.v) ELSE NatText(e.v)
    ELSE e.v

\* int(s) of a text of digits, letters and hyphens: an optional sign and then
\* digits, anything else raises ValueError
PyInt(s) ==
    LET signed == s /= <<>> /\ s[1] = "-"
        digits == IF signed THEN Tail(s) ELSE s
    IN IF digits /= <<>> /\ IsDigits(digits)
       THEN Ok(IntV(IF signed THEN 0 - NatOf(digits) ELSE NatOf(digits)))
       ELSE Raise("ValueError", "invalid literal for int()", <<>>)

\* the integers a, a + 1, ..., b
Ascending(a, b) == [i \in 1..(b - a + 1) |-> IntV(a + i - 1)]

\* the integers a, a - 1, ..., b
Descending(a, b) == [i \in 1..(a - b + 1) |-> IntV(a - i + 1)]

\* e.split("-", 1) of a text that holds a hyphen
SplitHyphen(s) ==
    LET i == CHOOSE k \in 1..Len(s) : s[k] = "-" /\ \A j \in 1..(k - 1) : s[j] /= "-"
    IN <<SubSeq(s, 1, i - 1), SubSeq(s, i + 1, Len(s))>>

\* expandToken that tries int(e) before it looks for a hyphen
expandTokenIntFirst(e0) ==
    LET e == PyStr(e0)
    IN IF PyInt(e).ok THEN <<PyInt(e).val>>
       ELSE IF \E k \in 1..Len(e) : e[k] = "-"
       THEN LET a == PyInt(SplitHyphen(e)[1])
                b == PyInt(SplitHyphen(e)[2])
            IN IF a.ok /\ b.ok
               THEN IF a.val.v < b.val.v THEN Ascending(a.val.v, b.val.v)
                    ELSE IF a.val.v > b.val.v THEN Descending(a.val.v, b.val.v)
                    ELSE <<a.val>>
               ELSE <<TextV(e)>>
       ELSE <<TextV(e)>>

\* the body of the loop of expand: what one element appends to output
expandToken(e0) ==
    LET e == PyStr(e0)
    IN IF \E k \in 1..Len(e) : e[k] = "-"
       THEN LET a == PyInt(SplitHyphen(e)[1])
                b == PyInt(SplitHyphen(e)[2])
            IN IF a.ok /\ b.ok
               THEN IF a.val.v < b.val.v THEN Ascending(a.val.v, b.val.v)
                    ELSE IF a.val.v > b.val.v THEN Descending(a.val.v, b.val.v)
                    ELSE <<a.val>>
               ELSE <<TextV(e)>>
       ELSE IF PyInt(e).ok THEN <<PyInt(e).val>> ELSE <<TextV(e)>>

\* the loop of expand over yaml_data, appending to output
RECURSIVE expandLoop(_, _)
expandLoop(yaml_data, output) ==
    IF yaml_data = <<>> THEN output
    ELSE expandLoop(Tail(yaml_data), output \o expandToken(Head(yaml_data)))

\* expand(yaml_data)
expand(yaml_data) ==
    ListV(expandLoop(IF yaml_data.t = "list" THEN yaml_data.v ELSE <<yaml_data>>, <<>>))

---------------------------------------------------------------------------
\* Options (data.py)

\* a keyword argument the caller does not pass
Absent == [t |-> "absent"]

\* the dataclass defaults of the background colors of Options
OptionsDefaults ==
    [bgcolor |-> StrV("WH"), bgcolor_node |-> StrV("WH"), bgcolor_connector |-> NoneV,
     bgcolor_cable |-> NoneV, bgcolor_bundle |-> NoneV]

\* the fields of Options(**kwargs) before __post_init__
OptionsFields(kwargs) ==
    [f \in DOMAIN OptionsDefaults |->
        IF kwargs[f].t = "absent" THEN OptionsDefaults[f] ELSE kwargs[f]]

\* OptionsPostInit with the bundles falling back on the nodes
OptionsPostInitBundleNode(kwargs) ==
    LET o == OptionsFields(kwargs)
        bg_node == IF ~Truthy(o.bgcolor_node) THEN o.bgcolor ELSE o.bgcolor_node
        bg_connector == IF ~Truthy(o.bgcolor_connector) THEN bg_node ELSE o.bgcolor_connector
        bg_cable == IF ~Truthy(o.bgcolor_cable) THEN bg_node ELSE o.bgcolor_cable
        bg_bundle == IF ~Truthy(o.bgcolor_bundle) THEN bg_node ELSE o.bgcolor_bundle
    IN [t |-> "Options", bgcolor |-> o.bgcolor, bgcolor_node |-> bg_node,
        bgcolor_connector |-> bg_connector, bgcolor_cable |-> bg_cable,
        bgcolor_bundle |-> bg_bundle]

\* Options.__post_init__
OptionsPostInit(kwargs) ==
    LET o == OptionsFields(kwargs)
        bg_node == IF ~Truthy(o.bgcolor_node) THEN o.bgcolor ELSE o.bgcolor_node
        bg_connector == IF ~Truthy(o.bgcolor_connector) THEN bg_node ELSE o.bgcolor_connector
        bg_cable == IF ~Truthy(o.bgcolor_cable) THEN bg_node ELSE o.bgcolor_cable
        bg_bundle == IF ~Truthy(o.bgcolor_bundle) THEN bg_cable ELSE o.bgcolor_bundle
    IN [t |-> "Options", bgcolor |-> o.bgcolor, bgcolor_node |-> bg_node,
        bgcolor_connector |-> bg_connector, bgcolor_cable |-> bg_cable,
        bgcolor_bundle |-> bg_bundle]

---------------------------------------------------------------------------
\* Image (data.py), with helper.aspect_ratio and graphviz_html.html_size_attr

\* a or b, and a and b, on Python values
PyOr(a, b) == IF Truthy(a) THEN a ELSE b
PyAnd(a, b) == IF Truthy(a) THEN b ELSE a

\* a / b for Python numbers, b one of 1, 2 (true division gives a float)
Div(a, b) ==
    LET ea == IF a.t = "float" THEN a.e ELSE 0
    IN NormFloat(a.v * (10 \div b.v), ea + 1)

\* helper.aspect_ratio: width / height of the image file, a float, or the
\* int 1 when the file cannot be read
aspect_ratio(src) == IF src = "wide.png" THEN FloatV(2, 0) ELSE IntV(1)

\* ImageFixedsize true as soon as scale is not given
ImageFixedsizeAnySize(cfg) ==
    IF cfg.fixedsize.t = "none"
    THEN BoolV(cfg.scale.t = "none")
    ELSE cfg.fixedsize

\* __post_init__, fixedsize: true by default if any dimension is given,
\* unless scale is given as well
ImageFixedsize(cfg) ==
    IF cfg.fixedsize.t = "none"
    THEN PyAnd(PyOr(cfg.width, cfg.height), BoolV(cfg.scale.t = "none"))
    ELSE cfg.fixedsize

\* __post_init__, scale
ImageScale(cfg) ==
    IF cfg.scale.t = "none"
    THEN IF ~Truthy(cfg.width) /\ ~Truthy(cfg.height) THEN StrV("false")
         ELSE IF Truthy(cfg.width) /\ Truthy(cfg.height) THEN StrV("both")
         ELSE StrV("true")
    ELSE cfg.scale

\* Image.__post_init__: with a fixed size, the dimension that is missing is
\* computed from the other and the aspect ratio of the file
ImagePostInit(cfg) ==
    LET fixedsize == ImageFixedsize(cfg)
        r == aspect_ratio(cfg.src)
        width == IF Truthy(fixedsize) /\ Truthy(cfg.height) /\ ~Truthy(cfg.width)
                 THEN Mul(cfg.height, r)
                 ELSE cfg.width
        height == IF Truthy(fixedsize) /\ ~Truthy(cfg.height) /\ Truthy(cfg.width)
                  THEN Div(cfg.width, r)
                  ELSE cfg.height
    IN [t |-> "Image", src |-> cfg.src, scale |-> ImageScale(cfg),
        width |-> width, height |-> height, fixedsize |-> fixedsize]

\* html_size_attr: the size attributes of the cell of an image, each
\* name="value" as a pair
html_size_attr(image) ==
    IF Truthy(image)
    THEN (IF Truthy(image.width)
          THEN <<[name |-> "width", value |-> image.width]>> ELSE <<>>)
         \o (IF Truthy(image.height)
             THEN <<[name |-> "height", value |-> image.height]>> ELSE <<>>)
         \o (IF Truthy(image.fixedsize)
             THEN <<[name |-> "fixedsize", value |-> StrV("true")]>> ELSE <<>>)
    ELSE <<>>

---------------------------------------------------------------------------
\* nested_html_table (graphviz_html.py).  A markup text is the sequence of
\* its tokens; ">" and "<tdX" are tokens of their own wherever the code
\* searches for them, so that "><tdX" is the token pair <<">", "<tdX">>.

Placeholder == <<">", "<tdX">>

\* any(row) for a list of optional fragments
AnyTruthy(row) == \E i \in 1..Len(row) : Truthy(row[i])

\* CellLine without the injection into the preceding <td> tag
CellLineVerbatim(cell) ==
    <<"   <td balign=\"left\"", ">">> \o cell.v \o <<"</td>">>

\* the line of one cell of a list row, attributes of a leading <tdX injected
CellLine(cell) ==
    Replace(<<"   <td balign=\"left\"", ">">> \o cell.v \o <<"</td>">>, Placeholder, <<>>)

\* the lines of the cells of a list row, from cell number k on
RECURSIVE CellLines(_, _)
CellLines(row, k) ==
    IF k > Len(row) THEN <<>>
    ELSE (IF row[k].t /= "none" THEN <<CellLine(row[k])>> ELSE <<>>)
         \o CellLines(row, k + 1)

\* RowRendered with a list row rendered as soon as it has an element that
\* is not None
RowRenderedNotNone(row) ==
    IF row.t = "list"
    THEN Len(row.v) > 0 /\ \E i \in 1..Len(row.v) : row.v[i].t /= "none"
    ELSE row.t /= "none"

\* whether the loop body appends a row for this element of rows
RowRendered(row) ==
    IF row.t = "list"
    THEN Len(row.v) > 0 /\ AnyTruthy(row.v)
    ELSE row.t /= "none"

\* the lines the loop body appends for one element of rows
RowLines(row) ==
    IF row.t = "list"
    THEN IF RowRendered(row)
         THEN <<<<" <tr><td>">>,
                <<"  <table border=\"0\" cellspacing=\"0\" cellpadding=\"3\" cellborder=\"1\"><tr>">>>>
              \o CellLines(row.v, 1)
              \o <<<<"  </tr></table>">>, <<" </td></tr>">>>>
         ELSE <<>>
    ELSE IF RowRendered(row)
         THEN <<<<" <tr><td>">>, <<"  ">> \o row.v, <<" </td></tr>">>>>
         ELSE <<>>

\* TableLoop with the lines of each row put before those of the rows before it
RECURSIVE TableLoopReversed(_, _)
TableLoopReversed(rs, k) ==
    IF k > Len(rs) THEN [html |-> <<>>, num_rows |-> 0]
    ELSE LET rest == TableLoopReversed(rs, k + 1)
         IN [html |-> rest.html \o RowLines(rs[k]),
             num_rows |-> (IF RowRendered(rs[k]) THEN 1 ELSE 0) + rest.num_rows]

\* the loop over rows, from row number k on: the lines and num_rows
RECURSIVE TableLoop(_, _)
TableLoop(rs, k) ==
    IF k > Len(rs) THEN [html |-> <<>>, num_rows |-> 0]
    ELSE LET rest == TableLoop(rs, k + 1)
         IN [html |-> RowLines(rs[k]) \o rest.html,
             num_rows |-> (IF RowRendered(rs[k]) THEN 1 ELSE 0) + rest.num_rows]

EmptyRow == <<"<tr><td></td></tr>">>

\* nested_html_table with the empty cell only for an empty rows argument
nested_html_tableEmptyOnly(rs, table_attrs) ==
    LET body == TableLoop(rs, 1)
    IN <<<<"<table border=\"0\" cellspacing=\"0\" cellpadding=\"0\"">>
           \o (IF Truthy(table_attrs) THEN table_attrs.v ELSE <<>>) \o <<">">>>>
       \o body.html
       \o (IF Len(rs) = 0 THEN <<EmptyRow>> ELSE <<>>)
       \o <<<<"</table>">>>>

nested_html_table(rs, table_attrs) ==
    LET body == TableLoop(rs, 1)
    IN <<<<"<table border=\"0\" cellspacing=\"0\" cellpadding=\"0\"">>
           \o (IF Truthy(table_attrs) THEN table_attrs.v ELSE <<>>) \o <<">">>>>
       \o body.html
       \o (IF body.num_rows = 0 THEN <<EmptyRow>> ELSE <<>>)
       \o <<<<"</table>">>>>

---------------------------------------------------------------------------
\* The configurations and arguments the model draws from

\* all sequences over S of length at most n
RECURSIVE SeqsUpTo(_, _)
SeqsUpTo(S, n) ==
    IF n = 0 THEN {<<>>}
    ELSE LET shorter == SeqsUpTo(S, n - 1)
         IN shorter \cup {Append(q, x) : q \in shorter, x \in S}

\* the dataclass defaults of Cable
DefaultCable ==
    [t |-> "cfg", name |-> "W1",
     manufacturer |-> NoneV, mpn |-> NoneV, supplier |-> NoneV, spn |-> NoneV,
     pn |-> NoneV, category |-> NoneV,
     gauge |-> NoneV, gauge_unit |-> NoneV,
     length |-> IntV(0), length_unit |-> NoneV,
     wirecount |-> NoneV, shield |-> BoolV(FALSE),
     colors |-> <<>>, wirelabels |-> <<>>, color_code |-> NoneV,
     show_name |-> NoneV, show_wirenumbers |-> NoneV,
     additional_components |-> <<>>]

ColorNames == {"RD", "BK"}
Palettes == SeqsUpTo(ColorNames, MaxColors)
Wirecounts == {NoneV} \cup {IntV(n) : n \in 0..MaxWirecount}
ColorCodes == {NoneV, StrV(""), StrV("BW"), StrV("T568A"), StrV("XYZ")}

\* Cable configurations that differ in wirecount, colors and color_code
CableColorCfgs ==
    {[DefaultCable EXCEPT !.wirecount = w, !.colors = p, !.color_code = cc] :
        w \in Wirecounts, p \in Palettes, cc \in ColorCodes}

CableCfgs == CableColorCfgs

\* a list of n part numbers
PartList(n) == ListV([i \in 1..n |-> StrV("P")])

\* an identification field: absent, or a list of part numbers, one per wire
\* of some wire count of the model
PartLists == {NoneV} \cup {PartList(n) : n \in (MaxColors - 1)..(MaxColors + 1)}

\* Cable configurations that differ in category, wire count and the five
\* identification fields
CableIdCfgs ==
    {[DefaultCable EXCEPT !.category = cat, !.wirecount = w, !.colors = p,
                          !.manufacturer = mf, !.mpn = mpn, !.supplier = su,
                          !.spn = spn, !.pn = pn] :
        cat \in {NoneV, StrV("bundle")},
        w \in {NoneV, IntV(MaxColors + 1)},
        p \in {<<>>, [i \in 1..MaxColors |-> "RD"]},
        mf \in PartLists \cup {StrV("ACME")},
        mpn \in PartLists, su \in {NoneV, PartList(MaxColors)},
        spn \in {NoneV, PartList(MaxColors + 1)}, pn \in PartLists}

\* gauge and length texts: every text of up to MaxTextLen characters over a
\* digit, the point, a letter and the space, and texts with the units
TextChars == {"5", ".", "a", " "}
ShortTexts == {TextV(q) : q \in SeqsUpTo(TextChars, MaxTextLen)}
UnitTexts ==
    {TextV(<<"2", "0", " ", "A", "W", "G">>), TextV(<<"2", "0", " ", "a", "w", "g">>),
     TextV(<<"2", "0", " ", "A", "w", "g">>), TextV(<<"0", ".", "2", "5", " ", "m", "m", "2">>),
     TextV(<<"1", " ", "m", "m">>), TextV(<<"a", "b", "c", " ", "A", "W", "G">>),
     TextV(<<"a", "b", "c">>), TextV(<<"0", ".", "5">>),
     TextV(<<"2", ".", "5", " ", "m">>), TextV(<<"2", "0", " ", "A", "W", "G", " ", "x">>)}

\* Cable configurations of one wire that differ in gauge and gauge_unit
CableGaugeCfgs ==
    {[DefaultCable EXCEPT !.wirecount = IntV(1), !.gauge = g, !.gauge_unit = gu] :
        g \in ShortTexts \cup UnitTexts \cup {NoneV, IntV(1), FloatV(5, 1)},
        gu \in {NoneV, TextV(Chars_AWG)}}

\* Cable configurations of one wire that differ in length and length_unit
CableLengthCfgs ==
    {[DefaultCable EXCEPT !.wirecount = IntV(1), !.length = l, !.length_unit = lu] :
        l \in ShortTexts \cup UnitTexts
                 \cup {NoneV, IntV(0), IntV(2), FloatV(25, 1), ListV(<<>>)},
        lu \in {NoneV, TextV(<<"c", "m">>)}}

CableUnitCfgs == CableGaugeCfgs \cup CableLengthCfgs

\* the Cable configurations of the runs that go on to connect
OpCableCfgs ==
    {[DefaultCable EXCEPT !.wirecount = IntV(3), !.length = IntV(2)],
     [DefaultCable EXCEPT !.wirecount = IntV(3), !.colors = <<"RD", "BK">>,
                          !.length = TextV(<<"2", ".", "5", " ", "m">>)],
     DefaultCable}

\* the dataclass defaults of Connector
DefaultConnector ==
    [t |-> "cfg", name |-> "X1", style |-> NoneV, pincount |-> NoneV,
     pins |-> <<>>, pinlabels |-> <<>>, pincolors |-> <<>>, loops |-> <<>>,
     show_name |-> NoneV, show_pincount |-> NoneV,
     additional_components |-> <<>>]

PinIds == 1..MaxPins
Labels(n) == [i \in 1..n |-> "L"]
Styles == {NoneV, StrV("simple"), StrV("plug")}
Pincounts == {NoneV} \cup {IntV(n) : n \in 0..(MaxPins + 1)}
LoopLists ==
    {<<>>, <<<<1, 2>>>>, <<<<1>>>>, <<<<1, MaxPins + 1>>>>, <<<<2, 1>>, <<1, 1>>>>,
     <<<<1, 2>>, <<2>>>>, <<<<1, 2, 1>>>>}

ConnectorCfgs ==
    {[DefaultConnector EXCEPT !.style = st, !.pincount = n, !.pins = ps,
                              !.pinlabels = Labels(nl), !.pincolors = Labels(nc),
                              !.loops = lp] :
        st \in Styles, n \in Pincounts, ps \in SeqsUpTo(PinIds, MaxPins),
        nl \in 0..MaxPins, nc \in 0..MaxPins, lp \in LoopLists}

\* the Connector configurations of the runs that go on to activate pins
OpConnectorCfgs ==
    {[DefaultConnector EXCEPT !.pincount = IntV(MaxPins)],
     [DefaultConnector EXCEPT !.pincount = IntV(1), !.pins = <<1, 2>>],
     [DefaultConnector EXCEPT !.pins = <<2, 1>>, !.loops = <<<<1, 2>>>>],
     [DefaultConnector EXCEPT !.pinlabels = Labels(MaxPins + 1), !.loops = <<<<1, 1>>>>],
     [DefaultConnector EXCEPT !.style = StrV("simple"), !.pins = <<1, 2>>],
     [DefaultConnector EXCEPT !.pins = <<1, 1>>]}

Sides == {"LEFT", "RIGHT", "None"}

\* the multiplier keys a caller passes: none, empty, the Connector's, the
\* Cable's, and an unknown one
QtyKeys ==
    {NoneV, StrV(""), StrV("pincount"), StrV("populated"), StrV("unpopulated"),
     StrV("wirecount"), StrV("terminations"), StrV("length"), StrV("total_length"),
     StrV("bogus")}

\* the arguments of connect: the tuples <<1..n>> and <<n..1>>, and single values
Asc(n) == [i \in 1..n |-> IntV(i)]
Desc(n) == [i \in 1..n |-> IntV(n + 1 - i)]
FromPins == {NoneV, IntV(1)} \cup {TupleV(Asc(n)) : n \in 0..MaxTuple}
ViaWires == {IntV(1)} \cup {TupleV(Asc(n)) : n \in 1..MaxTuple}
ToPins == {IntV(2)} \cup {TupleV(Desc(n)) : n \in 0..MaxTuple}

\* markup fragments: empty, plain text, text behind a leading <tdX with
\* attributes, text with "><tdX" inside, and text with <tdX after a letter
FragEmpty == TextV(<<>>)
FragPlain == TextV(<<"a">>)
FragAttr == TextV(<<"<tdX", " bgcolor=\"#FF0000\"", ">", "b">>)
FragMid == TextV(<<"c", ">", "<tdX", "d">>)
FragLoose == TextV(<<"e", "<tdX", "f">>)
ScalarRows == {FragEmpty, FragPlain, FragAttr, FragMid}
Cells == {NoneV, FragEmpty, FragAttr, FragMid, FragLoose}

\* the size of a row: one for the row, and one per element of a list
RowSize(r) == IF r.t = "list" THEN 1 + Len(r.v) ELSE 1

\* the rows of size at most n
RowValues(n) ==
    IF n < 1 THEN {}
    ELSE {NoneV} \cup ScalarRows \cup {ListV(q) : q \in SeqsUpTo(Cells, n - 1)}

\* the sequences of rows of total size at most n
RECURSIVE RowSeqs(_)
RowSeqs(n) ==
    {<<>>} \cup UNION {{<<r>> \o q : q \in RowSeqs(n - RowSize(r))} : r \in RowValues(n)}

TableAttrs == {TextV(<<>>), TextV(<<" bgcolor=\"#FFFFFF\"">>)}

\* the arguments of Image: two files, every way to give scale, the two
\* dimensions and fixedsize
ImageSrcs == {"wide.png", "missing.png"}
ImageDims == {NoneV, IntV(0), IntV(3), IntV(4)}
ImageCfgs ==
    [t : {"image_cfg"}, src : ImageSrcs, scale : {NoneV, StrV("true"), StrV("false")},
     width : ImageDims, height : ImageDims,
     fixedsize : {NoneV, BoolV(TRUE), BoolV(FALSE)}]

\* an item of additional_components: a dict with or without its type, or an
\* AdditionalComponent
ComponentItems ==
    {[t |-> "dict", type |-> StrV("Fuse")], [t |-> "dict", type |-> [t |-> "absent"]],
     [t |-> "AdditionalComponent", type |-> StrV("Fuse"), qty |-> IntV(1)]}

\* the additional_components lists of the configurations built twice
ComponentLists == SeqsUpTo(ComponentItems, MaxComponents)

\* the Cable and Connector configurations built twice
RebuildCableCfgs ==
    {[c EXCEPT !.additional_components = a] :
        c \in OpCableCfgs \cup
              {[DefaultCable EXCEPT !.wirecount = IntV(MaxColors + 1),
                                    !.color_code = StrV("BW"),
                                    !.gauge = TextV(<<"5", " ", "a">>)],
               [DefaultCable EXCEPT !.color_code = StrV("XYZ"), !.wirecount = IntV(1)]},
        a \in ComponentLists}
RebuildConnectorCfgs ==
    {[c EXCEPT !.additional_components = a] : c \in OpConnectorCfgs, a \in ComponentLists}

\* the cable and the connectors of a harness
HarnessCableCfgs == {[DefaultCable EXCEPT !.wirecount = IntV(3), !.length = IntV(2)]}
HarnessConnectorCfgs ==
    {[DefaultConnector EXCEPT !.pincount = IntV(MaxPins)],
     [DefaultConnector EXCEPT !.pins = <<2, 1>>, !.loops = <<<<1, 2>>>>],
     [DefaultConnector EXCEPT !.pins = <<1, 2>>, !.pinlabels = Labels(1)]}

\* the values of a key of existing_data: not there, empty or set
OldValues == {[t |-> "absent"], StrV(""), StrV("old")}

\* the values of a field of PartInfo: not fetched, or fetched
NewValues == {NoneV, StrV("new")}

\* the calls of merge_with_existing: the PartInfo and the existing data
MergeArgs ==
    [t : {"merge_args"},
     self : [manufacturer : NewValues, mpn : {NoneV}, supplier : {StrV("new")},
             spn : {StrV("new")}, description : NewValues, image_url : NewValues,
             datasheet_url : NewValues],
     existing_data : [manufacturer : OldValues, mpn : {StrV("old")},
                      supplier : {StrV("old")}, spn : OldValues,
                      description : OldValues, _image_url : OldValues,
                      _datasheet_url : {[t |-> "absent"], StrV("old")},
                      qty : {IntV(2)}]]

\* the characters of the tokens given to expand
TokenChars == {"1", "3", "-", "A"}

\* the tokens given to expand alone: every short text and some integers
Tokens ==
    {TextV(q) : q \in SeqsUpTo(TokenChars, MaxTextLen + 1)}
        \cup {IntV(0 - 3), IntV(0), IntV(5), IntV(13)}

\* the tokens given to expand in a list
ListTokens ==
    {TextV(<<"A">>), TextV(<<"1", "-", "3">>), TextV(<<"3", "-", "1">>),
     TextV(<<"-", "3">>), TextV(<<"1", "3">>), IntV(5), IntV(0 - 3)}

\* the arguments of expand: a token, or a list of tokens
ExpandArgs == Tokens \cup {ListV(q) : q \in SeqsUpTo(ListTokens, MaxListLen)}

\* the keyword arguments of Options: each background color passed or not,
\* and passed as None, as the empty string or as a color
OptionsKwargs ==
    [t : {"options_kwargs"},
     bgcolor : {Absent, StrV("RD")},
     bgcolor_node : {Absent, NoneV, StrV(""), StrV("GN")},
     bgcolor_connector : {Absent, NoneV, StrV(""), StrV("BU")},
     bgcolor_cable : {Absent, NoneV, StrV(""), StrV("YE")},
     bgcolor_bundle : {Absent, NoneV, StrV(""), StrV("VT")}]

---------------------------------------------------------------------------
\* The state machine

Idle == [op |-> "none", args |-> <<>>, out |-> Ok(NoneV)]
Call(op, args, out) == [op |-> op, args |-> args, out |-> out]

NoTable == <<>>

InitCableWith(cfgs) ==
    /\ cable_cfg \in cfgs
    /\ cable = NotBuilt
    /\ conn_cfg = NoneV
    /\ connector = NotBuilt
    /\ rows = <<>>
    /\ html = NoTable
    /\ last = Idle
    /\ activated = {}
    /\ arg = NoneV
    /\ result = NoneV

InitConnectorWith(cfgs) ==
    /\ cable_cfg = NoneV
    /\ cable = NotBuilt
    /\ conn_cfg \in cfgs
    /\ connector = NotBuilt
    /\ rows = <<>>
    /\ html = NoTable
    /\ last = Idle
    /\ activated = {}
    /\ arg = NoneV
    /\ result = NoneV

InitTable ==
    /\ cable_cfg = NoneV
    /\ cable = NotBuilt
    /\ conn_cfg = NoneV
    /\ connector = NotBuilt
    /\ rows \in RowSeqs(MaxFragments)
    /\ html = NoTable
    /\ last = Idle
    /\ activated = {}
    /\ arg = NoneV
    /\ result = NoneV

\* no Cable, Connector or table, and a call argument
InitArg(args) ==
    /\ cable_cfg = NoneV
    /\ cable = NotBuilt
    /\ conn_cfg = NoneV
    /\ connector = NotBuilt
    /\ rows = <<>>
    /\ html = NoTable
    /\ last = Idle
    /\ activated = {}
    /\ arg \in args
    /\ result = NoneV

\* Image(**arg)
ImageConstruct ==
    /\ arg.t = "image_cfg"
    /\ last.op = "none"
    /\ result' = ImagePostInit(arg)
    /\ last' = Call("Image", <<>>, Ok(NoneV))
    /\ UNCHANGED <<cable_cfg, cable, conn_cfg, connector, rows, html, activated, arg>>

\* expand(arg)
Expand ==
    /\ arg.t \in {"text", "int", "list"}
    /\ last.op = "none"
    /\ result' = expand(arg)
    /\ last' = Call("expand", <<>>, Ok(NoneV))
    /\ UNCHANGED <<cable_cfg, cable, conn_cfg, connector, rows, html, activated, arg>>

\* arg.self.merge_with_existing(arg.existing_data): the dict is copied first,
\* existing_data itself is not written
MergeWithExisting ==
    /\ arg.t = "merge_args"
    /\ last.op = "none"
    /\ result' = merge_with_existing(arg.self, arg.existing_data)
    /\ last' = Call("merge_with_existing", <<>>, Ok(NoneV))
    /\ UNCHANGED <<cable_cfg, cable, conn_cfg, connector, rows, html, activated, arg>>

\* Options(**arg)
OptionsConstruct ==
    /\ arg.t = "options_kwargs"
    /\ last.op = "none"
    /\ result' = OptionsPostInit(arg)
    /\ last' = Call("Options", <<>>, Ok(NoneV))
    /\ UNCHANGED <<cable_cfg, cable, conn_cfg, connector, rows, html, activated, arg>>

\* Cable(**cable_cfg)
CableConstruct ==
    /\ cable_cfg.t = "cfg"
    /\ cable.st = "new"
    /\ cable' = CablePostInit(cable_cfg)
    /\ cable_cfg' = CableMappingAfter(cable_cfg)
    /\ last' = Call("Cable", <<>>, IF cable'.st = "ok" THEN Ok(NoneV) ELSE cable'.err)
    /\ UNCHANGED <<conn_cfg, connector, rows, html, activated, arg, result>>

\* cable.connect(from_name, from_pin, via_wire, to_name, to_pin), its pins and
\* wires drawn from the given sets
ConnectWith(froms, vias, tos) ==
    /\ cable.st = "ok"
    /\ \E from_name \in {StrV("X1")}, to_name \in {StrV("__X2")},
          from_pin \in froms, via_wire \in vias, to_pin \in tos :
          /\ Len(cable.connections) + Len(int2tuple(from_pin)) <= MaxConnections
          /\ LET r == CableConnect(cable.connections, from_name, from_pin, via_wire,
                                   to_name, to_pin)
             IN /\ cable' = [cable EXCEPT !.connections = r.connections]
                /\ last' = Call("Cable.connect",
                                <<from_name, from_pin, via_wire, to_name, to_pin>>, r.out)
    /\ UNCHANGED <<cable_cfg, conn_cfg, connector, rows, html, activated, arg, result>>

\* cable.connect(from_name, from_pin, via_wire, to_name, to_pin)
Connect == ConnectWith(FromPins, ViaWires, ToPins)

\* cable.connect of a harness: one wire from pin 1 of the connector, to a pin
\* or to no pin
HarnessConnect == ConnectWith({IntV(1)}, {IntV(1)}, {IntV(2), TupleV(<<>>)})

\* cable.get_qty_multiplier(key)
CableGetQty ==
    /\ cable.st = "ok"
    /\ \E key \in QtyKeys :
          last' = Call("Cable.get_qty_multiplier", <<key>>, CableGetQtyMultiplier(cable, key))
    /\ UNCHANGED <<cable_cfg, cable, conn_cfg, connector, rows, html, activated, arg, result>>

\* Connector(**conn_cfg)
ConnectorConstruct ==
    /\ conn_cfg.t = "cfg"
    /\ connector.st = "new"
    /\ connector' = ConnectorPostInit(conn_cfg)
    /\ conn_cfg' = ConnectorMappingAfter(conn_cfg)
    /\ last' = Call("Connector", <<>>,
                    IF connector'.st = "ok" THEN Ok(NoneV) ELSE connector'.err)
    /\ UNCHANGED <<cable_cfg, cable, rows, html, activated, arg, result>>

\* connector.activate_pin(pin, side)
ActivatePinCall ==
    /\ connector.st = "ok"
    /\ \E pin \in 1..(MaxPins + 1), side \in Sides :
          /\ connector' = ActivatePin(connector, pin, side)
          /\ last' = Call("Connector.activate_pin", <<IntV(pin), StrV(side)>>, Ok(NoneV))
          /\ activated' = activated \cup {pin}
    /\ UNCHANGED <<cable_cfg, cable, conn_cfg, rows, html, arg, result>>

\* connector.get_qty_multiplier(key)
ConnectorGetQty ==
    /\ connector.st = "ok"
    /\ \E key \in QtyKeys :
          last' = Call("Connector.get_qty_multiplier", <<key>>,
                       ConnectorGetQtyMultiplier(connector, key))
    /\ UNCHANGED <<cable_cfg, cable, conn_cfg, connector, rows, html, activated, arg, result>>

\* nested_html_table(rows, table_attrs)
RenderTable ==
    /\ last.op = "none"
    /\ cable_cfg.t = "none" /\ conn_cfg.t = "none"
    /\ \E table_attrs \in TableAttrs :
          /\ html' = nested_html_table(rows, table_attrs)
          /\ last' = Call("nested_html_table", <<table_attrs>>, Ok(NoneV))
    /\ UNCHANGED <<cable_cfg, cable, conn_cfg, connector, rows, activated, arg, result>>

\* a Cable or a Connector is built and used
\* a configuration mapping to build a Cable or a Connector of, and in arg a
\* second mapping with the same content
InitRebuild ==
    /\ \/ /\ cable_cfg \in RebuildCableCfgs
          /\ arg = cable_cfg
          /\ conn_cfg = NoneV
       \/ /\ conn_cfg \in RebuildConnectorCfgs
          /\ arg = conn_cfg
          /\ cable_cfg = NoneV
    /\ cable = NotBuilt
    /\ connector = NotBuilt
    /\ rows = <<>>
    /\ html = NoTable
    /\ last = Idle
    /\ activated = {}
    /\ result = NoneV

\* a second Cable(**mapping), of the mapping the first one was built of or of
\* the mapping with the same content
CableConstructAgain ==
    /\ cable_cfg.t = "cfg"
    /\ last.op = "Cable"
    /\ \/ /\ result' = CablePostInit(cable_cfg)
          /\ cable_cfg' = CableMappingAfter(cable_cfg)
          /\ arg' = arg
          /\ last' = Call("Cable again", <<StrV("same mapping")>>, Ok(NoneV))
       \/ /\ result' = CablePostInit(arg)
          /\ arg' = CableMappingAfter(arg)
          /\ cable_cfg' = cable_cfg
          /\ last' = Call("Cable again", <<StrV("equal mapping")>>, Ok(NoneV))
    /\ UNCHANGED <<cable, conn_cfg, connector, rows, html, activated>>

\* a second Connector(**mapping), of the mapping the first one was built of or
\* of the mapping with the same content
ConnectorConstructAgain ==
    /\ conn_cfg.t = "cfg"
    /\ last.op = "Connector"
    /\ \/ /\ result' = ConnectorPostInit(conn_cfg)
          /\ conn_cfg' = ConnectorMappingAfter(conn_cfg)
          /\ arg' = arg
          /\ last' = Call("Connector again", <<StrV("same mapping")>>, Ok(NoneV))
       \/ /\ result' = ConnectorPostInit(arg)
          /\ arg' = ConnectorMappingAfter(arg)
          /\ conn_cfg' = conn_cfg
          /\ last' = Call("Connector again", <<StrV("equal mapping")>>, Ok(NoneV))
    /\ UNCHANGED <<cable_cfg, cable, connector, rows, html, activated>>

\* a harness: one cable and one connector, both still to be built
InitHarness ==
    /\ cable_cfg \in HarnessCableCfgs
    /\ cable = NotBuilt
    /\ conn_cfg \in HarnessConnectorCfgs
    /\ connector = NotBuilt
    /\ rows = <<>>
    /\ html = NoTable
    /\ last = Idle
    /\ activated = {}
    /\ arg = NoneV
    /\ result = NoneV

Init == InitCableWith(OpCableCfgs) \/ InitConnectorWith(OpConnectorCfgs)
Next ==
    \/ CableConstruct
    \/ Connect
    \/ CableGetQty
    \/ ConnectorConstruct
    \/ ActivatePinCall
    \/ ConnectorGetQty
Spec == Init /\ [][Next]_vars

\* Cables are built from every configuration
SpecCableInit == InitCableWith(CableCfgs) /\ [][CableConstruct]_vars

\* Cables are built from every configuration of identification fields
SpecCableIds == InitCableWith(CableIdCfgs) /\ [][CableConstruct]_vars

\* Cables are built from every configuration of gauge and of length
SpecCableUnits == InitCableWith(CableUnitCfgs) /\ [][CableConstruct]_vars

\* Connectors are built from every configuration
SpecConnectorInit == InitConnectorWith(ConnectorCfgs) /\ [][ConnectorConstruct]_vars

\* Images are built from every argument
SpecImage == InitArg(ImageCfgs) /\ [][ImageConstruct]_vars

\* a cable and a connector of one harness, built and used in any order
NextHarness ==
    \/ CableConstruct
    \/ HarnessConnect
    \/ ConnectorConstruct
    \/ ActivatePinCall
    \/ ConnectorGetQty
SpecHarness == InitHarness /\ [][NextHarness]_vars

\* a Cable or a Connector is built, and then built again
NextRebuild ==
    \/ CableConstruct
    \/ CableConstructAgain
    \/ ConnectorConstruct
    \/ ConnectorConstructAgain
SpecRebuild == InitRebuild /\ [][NextRebuild]_vars

\* fetched part data are merged into existing data
SpecMerge == InitArg(MergeArgs) /\ [][MergeWithExisting]_vars

\* expand is applied to every token and every short list of tokens
SpecExpand == InitArg(ExpandArgs) /\ [][Expand]_vars

\* Options are built from every choice of keyword arguments
SpecOptions == InitArg(OptionsKwargs) /\ [][OptionsConstruct]_vars

\* tables are rendered from every sequence of rows
SpecTable == InitTable /\ [][RenderTable]_vars

---------------------------------------------------------------------------
\* Properties

\* the palette a Cable configuration names: its colors, else the table of
\* its color code when that is a known one, else none
HasPalette(cfg) ==
    cfg.colors /= <<>> \/
    (cfg.color_code.t = "str" /\ cfg.color_code.v \in {"BW", "T568A"})
PaletteOf(cfg) ==
    IF cfg.colors /= <<>> THEN cfg.colors
    ELSE IF cfg.color_code.v = "BW" THEN <<"BK", "WH">>
    ELSE <<"WHGN", "GN", "WHOG", "BU", "WHBU", "OG", "WHBN", "BN">>

\* C1: a Cable built with an explicit (non-zero) wirecount and a palette has
\* exactly wirecount colors; with more wires than palette entries, color i is
\* palette entry i mod len(palette) (counting from 0), and otherwise the
\* colors are the first wirecount entries of the palette.
C1_ColorsLoopPalette ==
    (cable.st = "ok" /\ cable_cfg.wirecount.t = "int" /\ cable_cfg.wirecount.v > 0
        /\ HasPalette(cable_cfg)) =>
    LET pal == PaletteOf(cable_cfg)
        n == cable_cfg.wirecount.v
    IN /\ cable.wirecount = n
       /\ Len(cable.colors) = n
       /\ IF n > Len(pal)
          THEN \A i \in 0..(n - 1) : cable.colors[i + 1] = pal[(i % Len(pal)) + 1]
          ELSE cable.colors = SubSeq(pal, 1, n)

\* palette RD BK and five wires give RD BK RD BK RD
C1_Witness ==
    /\ cable.st = "ok"
    /\ cable_cfg.wirecount = IntV(5)
    /\ cable_cfg.colors = <<"RD", "BK">>
    /\ cable.colors = <<"RD", "BK", "RD", "BK", "RD">>

MaxLen3(a, b, c) == Max2(Len(a), Max2(Len(b), Len(c)))

\* C2 as stated: a Connector built without a pincount has the pincount
\* max(len(pins), len(pinlabels), len(pincolors)), whatever its style.
C2_PincountIsMaxAnyStyle ==
    (connector.st = "ok" /\ conn_cfg.pincount.t = "none") =>
    connector.pincount = MaxLen3(conn_cfg.pins, conn_cfg.pinlabels, conn_cfg.pincolors)

\* C2, amended: a Connector built without a pincount has the pincount
\* max(len(pins), len(pinlabels), len(pincolors)) for every style but
\* "simple", and the pincount 1 for style "simple".
C2_PincountIsMaxUnlessSimple ==
    (connector.st = "ok" /\ conn_cfg.pincount.t = "none") =>
    connector.pincount =
        IF conn_cfg.style.t = "str" /\ conn_cfg.style.v = "simple" THEN 1
        ELSE MaxLen3(conn_cfg.pins, conn_cfg.pinlabels, conn_cfg.pincolors)

\* one pin, no labels, two pin colors, style plug: pincount 2
C2_Witness ==
    /\ connector.st = "ok"
    /\ conn_cfg.pincount.t = "none"
    /\ conn_cfg.style = StrV("plug")
    /\ Len(conn_cfg.pins) = 1
    /\ Len(conn_cfg.pinlabels) = 0
    /\ Len(conn_cfg.pincolors) = 2
    /\ connector.pincount = 2

\* the values an argument of connect stands for: those of a tuple, or the one
ValuesOf(x) == IF x.t = "tuple" THEN x.v ELSE <<x>>

IsPrefixOf(a, b) == Len(a) <= Len(b) /\ SubSeq(b, 1, Len(a)) = a

\* C3: a connect call whose from_pin, via_wire and to_pin stand for the same
\* number of values succeeds and appends one Connection (from_name,
\* from_pin[i], via_wire[i], to_name, to_pin[i]) per index i, in ascending
\* order; a call whose from_pin and to_pin differ in length fails and
\* appends nothing.
C3_ConnectAppendsPairs ==
    [][last'.op = "Cable.connect" =>
        LET a == last'.args
            f == ValuesOf(a[2])
            v == ValuesOf(a[3])
            t == ValuesOf(a[5])
        IN /\ Len(f) /= Len(t) =>
                ~last'.out.ok /\ cable'.connections = cable.connections
           /\ (Len(f) = Len(t) /\ Len(v) = Len(f)) =>
                /\ last'.out.ok
                /\ cable'.connections = cable.connections \o
                       [i \in 1..Len(f) |->
                           [from_name |-> a[1], from_pin |-> f[i], via_port |-> v[i],
                            to_name |-> a[4], to_pin |-> t[i]]]
    ]_vars

\* connect("X1", (1, 2), (1, 2), "__X2", (2, 1)) on a cable without connections
C3_Witness ==
    /\ last.op = "Cable.connect"
    /\ last.out.ok
    /\ last.args = <<StrV("X1"), TupleV(Asc(2)), TupleV(Asc(2)), StrV("__X2"), TupleV(Desc(2))>>
    /\ Len(cable.connections) = 2
    /\ cable.connections[1].from_pin = IntV(1) /\ cable.connections[1].to_pin = IntV(2)
    /\ cable.connections[2].from_pin = IntV(2) /\ cable.connections[2].to_pin = IntV(1)

\* C4: the connections of a Cable are empty right after construction, and
\* every later step (connect, get_qty_multiplier) keeps the Cable and keeps
\* the connections it had, unchanged and in order, as a prefix of the list.
C4_ConnectionsAppendOnly ==
    [][/\ (cable.st = "new" /\ cable'.st = "ok") => cable'.connections = <<>>
       /\ cable.st = "ok" =>
            cable'.st = "ok" /\ IsPrefixOf(cable.connections, cable'.connections)
    ]_vars

\* a second connect call, of pin 1, after a first one of pin None
C4_Witness ==
    /\ last.op = "Cable.connect"
    /\ last.args[2] = IntV(1)
    /\ Len(cable.connections) = 2
    /\ cable.connections[1].from_pin = NoneV
    /\ cable.connections[2].from_pin = IntV(1)

\* the pins of the loops of a Connector configuration
LoopPins(cfg) == {cfg.loops[k][i] : k \in 1..Len(cfg.loops), i \in 1..2}

\* C5: get_qty_multiplier of a Connector returns its pincount for
\* "pincount", the number of distinct pins activated so far (loop pins
\* included) for "populated", and pincount less that number, floored at
\* zero, for "unpopulated".
C5_ConnectorMultipliers ==
    (connector.st = "ok" /\ last.op = "Connector.get_qty_multiplier") =>
    LET visible == Cardinality(activated \cup LoopPins(conn_cfg))
        key == last.args[1]
    IN /\ key = StrV("pincount") => last.out = Ok(IntV(connector.pincount))
       /\ key = StrV("populated") => last.out = Ok(IntV(visible))
       /\ key = StrV("unpopulated") =>
            last.out = Ok(IntV(IF connector.pincount > visible
                                THEN connector.pincount - visible ELSE 0))

\* pincount 3 by three pin labels, loop pin 1 and activated pin 2: unpopulated 1
C5_Witness ==
    /\ connector.st = "ok"
    /\ conn_cfg.loops = <<<<1, 1>>>>
    /\ activated = {2}
    /\ connector.pincount = 3
    /\ last = Call("Connector.get_qty_multiplier", <<StrV("unpopulated")>>, Ok(IntV(1)))

\* whether number p is length times n, for an int or a float length
IsProduct(p, length, n) ==
    IF length.t = "int" THEN p = IntV(length.v * n)
    ELSE p.t = "float" /\ p.v * Pow10(length.e) = length.v * n * Pow10(p.e)

\* C6: get_qty_multiplier of a Cable returns wirecount for "wirecount", the
\* number of Connections recorded so far for "terminations", length for
\* "length" and length * wirecount for "total_length"; and each successful
\* connect call adds the number of its paired elements to the terminations.
C6_CableMultipliers ==
    /\ []((cable.st = "ok" /\ last.op = "Cable.get_qty_multiplier") =>
            LET key == last.args[1]
            IN /\ key = StrV("wirecount") => last.out = Ok(IntV(cable.wirecount))
               /\ key = StrV("terminations") => last.out = Ok(IntV(Len(cable.connections)))
               /\ key = StrV("length") => last.out = Ok(cable.length)
               /\ key = StrV("total_length") =>
                    last.out.ok /\ IsProduct(last.out.val, cable.length, cable.wirecount))
    /\ [][(last'.op = "Cable.connect" /\ last'.out.ok) =>
            Len(cable'.connections) =
                Len(cable.connections) + Len(ValuesOf(last'.args[2]))]_vars

\* length "2.5 m" and three wires: total_length 7.5
C6_Witness ==
    /\ cable.st = "ok"
    /\ cable.wirecount = 3
    /\ cable.length = FloatV(25, 1)
    /\ Len(cable.connections) = 2
    /\ last = Call("Cable.get_qty_multiplier", <<StrV("total_length")>>, Ok(FloatV(75, 1)))

ConnectorKeys == {StrV("pincount"), StrV("populated"), StrV("unpopulated")}
CableKeys == {StrV("wirecount"), StrV("terminations"), StrV("length"), StrV("total_length")}

\* C7: get_qty_multiplier of a Connector or a Cable returns 1 for an absent
\* or empty key, raises ValueError (invalid qty multiplier parameter) for
\* every key outside the entity's own set, and in every case leaves the
\* Connector and the Cable as they were.
C7_MultiplierKeys ==
    [][(last'.op \in {"Connector.get_qty_multiplier", "Cable.get_qty_multiplier"}) =>
        LET key == last'.args[1]
            known == IF last'.op = "Connector.get_qty_multiplier"
                     THEN ConnectorKeys ELSE CableKeys
        IN /\ cable' = cable
           /\ connector' = connector
           /\ key \in {NoneV, StrV("")} => last'.out = Ok(IntV(1))
           /\ key \notin known \cup {NoneV, StrV("")} =>
                ~last'.out.ok /\ last'.out.exc = "ValueError"
           /\ key \in known => last'.out.ok
    ]_vars

\* a Connector asked for the Cable key wirecount
C7_Witness ==
    /\ connector.st = "ok"
    /\ last.op = "Connector.get_qty_multiplier"
    /\ last.args = <<StrV("wirecount")>>
    /\ ~last.out.ok
    /\ last.out.exc = "ValueError"

\* Reading a rendered table: its lines without the table tags, cut into one
\* block per outer row (a block ends with the line that closes the row)
RowOpenLine == <<" <tr><td>">>
RowCloseLine == <<" </td></tr>">>
PlaceholderLine == <<"<tr><td></td></tr>">>
CellOpenToken == "   <td balign=\"left\""

BodyOf(h) == SubSeq(h, 2, Len(h) - 1)

RECURSIVE Blocks(_)
Blocks(ls) ==
    IF ls = <<>> THEN <<>>
    ELSE LET k == IF \E i \in 1..Len(ls) : ls[i] = RowCloseLine
                  THEN CHOOSE i \in 1..Len(ls) :
                           ls[i] = RowCloseLine /\ \A j \in 1..(i - 1) : ls[j] /= RowCloseLine
                  ELSE Len(ls)
         IN <<SubSeq(ls, 1, k)>> \o Blocks(SubSeq(ls, k + 1, Len(ls)))

\* the outer rows of a rendered table: none when it holds the placeholder only
OuterRows(h) == IF BodyOf(h) = <<PlaceholderLine>> THEN <<>> ELSE Blocks(BodyOf(h))

IsNone(x) == x.t = "none"
NotNone(x) == x.t /= "none"

\* a row is left out: None, or a list with no element that is a non-empty fragment
Omitted(r) ==
    \/ r.t = "none"
    \/ r.t = "list" /\ \A j \in 1..Len(r.v) : r.v[j].t = "none" \/ r.v[j].v = <<>>
NotOmitted(r) == ~Omitted(r)

\* a row is left out: None, or a list that is empty or holds only None
OmittedOnlyNone(r) ==
    \/ r.t = "none"
    \/ r.t = "list" /\ \A j \in 1..Len(r.v) : r.v[j].t = "none"
NotOmittedOnlyNone(r) == ~OmittedOnlyNone(r)

Rendered == last.op = "nested_html_table"

\* C8: a rendered table has the table tags around at least one row; when every
\* row is None, an empty list or a list of only None, it is the open tag,
\* the one placeholder row <tr><td></td></tr> and the close tag.
C8_NeverZeroRows ==
    Rendered =>
    /\ Len(html) >= 3
    /\ html[Len(html)] = <<"</table>">>
    /\ \E i \in 2..(Len(html) - 1) : html[i] \in {RowOpenLine, PlaceholderLine}
    /\ (\A i \in 1..Len(rows) : OmittedOnlyNone(rows[i])) =>
         Len(html) = 3 /\ html[2] = PlaceholderLine

\* the rows None and [None] give the placeholder table
C8_Witness ==
    /\ Rendered
    /\ rows = <<NoneV, ListV(<<NoneV>>)>>
    /\ Len(html) = 3
    /\ html[2] = PlaceholderLine

PayloadTokens == {"a", "b", "c", "d", "e", "f"}
IsPayload(tok) == tok \in PayloadTokens
Payload(line) == SelectSeq(line, IsPayload)

\* C9: a rendered table has one outer row per row that is not left out, in
\* the order of rows; the row of a fragment carries the text of the fragment,
\* and the row of a list has one cell line per element that is not None, in
\* the order of the list, each carrying the text of its element.
C9_OrderPreserved ==
    Rendered =>
    LET kept == SelectSeq(rows, NotOmitted)
        out == OuterRows(html)
    IN /\ Len(out) = Len(kept)
       /\ \A i \in 1..Len(kept) :
            LET b == out[i]
            IN /\ b[1] = RowOpenLine
               /\ b[Len(b)] = RowCloseLine
               /\ IF kept[i].t = "list"
                  THEN LET cs == SelectSeq(kept[i].v, NotNone)
                       IN /\ Len(b) = Len(cs) + 4
                          /\ \A j \in 1..Len(cs) : Payload(b[j + 2]) = Payload(cs[j].v)
                  ELSE Len(b) = 3 /\ Payload(b[2]) = Payload(kept[i].v)

\* the fragment a before the list [<tdX ..>b, c><tdXd]
C9_Witness ==
    /\ Rendered
    /\ rows = <<FragPlain, ListV(<<FragAttr, FragMid>>)>>
    /\ Len(html) = 11
    /\ Payload(html[3]) = <<"a">>
    /\ Payload(html[7]) = <<"b">>
    /\ Payload(html[8]) = <<"c", "d">>

\* the outer rows of a rendered table are those of the rows Keep keeps, and
\* that of a list is an inner table of one cell line per element not None
ListRowsRendered(Keep(_)) ==
    LET kept == SelectSeq(rows, Keep)
        out == OuterRows(html)
    IN /\ Len(out) = Len(kept)
       /\ \A i \in 1..Len(kept) :
            kept[i].t = "list" =>
            LET b == out[i]
                n == Cardinality({j \in 1..Len(kept[i].v) : kept[i].v[j].t /= "none"})
            IN /\ Len(b) = n + 4
               /\ \A j \in 3..(Len(b) - 2) : b[j][1] = CellOpenToken
               /\ Cardinality({j \in 1..Len(b) : b[j][1] = CellOpenToken}) = n

\* C10 as stated: a list row is left out if and only if it is empty or holds
\* only None; every other list row is an inner table with one cell per
\* element that is not None.
C10_ListRowOmittedIffOnlyNone == Rendered => ListRowsRendered(NotOmittedOnlyNone)

\* C10, amended: a list row is left out if and only if it holds no non-empty
\* fragment (it is empty, or each element is None or the empty text); every
\* other list row is an inner table with one cell per element that is not
\* None, the empty texts among them included.
C10_ListRowOmittedIffNoText == Rendered => ListRowsRendered(NotOmitted)

\* the list ["", None, <tdX ..>b] is rendered with two cells
C10_Witness ==
    /\ Rendered
    /\ rows = <<ListV(<<FragEmpty, NoneV, FragAttr>>)>>
    /\ Len(html) = 8
    /\ html[4] = <<CellOpenToken, ">", "</td>">>
    /\ html[5][1] = CellOpenToken

\* a fragment starts with the placeholder tag <tdX
LeadsWithPlaceholder(f) == Len(f) >= 1 /\ f[1] = "<tdX"

\* a fragment holds the placeholder tag right after a ">", past its start
HasInnerPair(f) == \E k \in 1..(Len(f) - 1) : f[k] = ">" /\ f[k + 1] = "<tdX"

HasToken(line, tok) == \E k \in 1..Len(line) : line[k] = tok

\* the cell line with the rest of a leading placeholder tag in the <td> tag
MergedCell(f) == <<CellOpenToken>> \o Tail(f) \o <<"</td>">>

\* the cell line that holds the fragment as it is
PlainCell(f) == <<CellOpenToken, ">">> \o f \o <<"</td>">>

Built == connector.st /= "new"

HasDuplicate(s) == \E i, j \in 1..Len(s) : i < j /\ s[i] = s[j]

\* C12: a Connector configuration whose pins hold the same pin twice fails
\* construction (with "Pins are not unique", unless the pin count of a simple
\* connector failed it before), and the pins of every constructed Connector
\* are pairwise distinct.
C12_DuplicatePinsFail ==
    Built =>
    /\ HasDuplicate(conn_cfg.pins) =>
         /\ connector.st = "failed"
         /\ connector.err.msg \in
                {"Pins are not unique",
                 "Connectors with style set to simple may only have one pin"}
    /\ connector.st = "ok" => ~HasDuplicate(connector.pins)

\* the pins 1, 1 of a connector with no style
C12_Witness ==
    /\ connector.st = "failed"
    /\ conn_cfg.pins = <<1, 1>>
    /\ conn_cfg.style = NoneV
    /\ connector.err.msg = "Pins are not unique"

\* C13: a Connector configuration of style simple fails construction when its
\* pincount is greater than 1, with the error of the simple style; every
\* other one, once constructed, has the pincount 1, whatever the lengths of
\* its pins, pinlabels and pincolors, and never fails for its pin count.
C13_SimpleStyleOnePin ==
    (Built /\ conn_cfg.style = StrV("simple")) =>
    IF conn_cfg.pincount.t = "int" /\ conn_cfg.pincount.v > 1
    THEN /\ connector.st = "failed"
         /\ connector.err.msg = "Connectors with style set to simple may only have one pin"
    ELSE /\ connector.st = "ok" => connector.pincount = 1
         /\ connector.st = "failed" =>
              connector.err.msg \notin
                  {"Connectors with style set to simple may only have one pin",
                   "You need to specify at least one, pincount, pins, pinlabels, or pincolors"}

\* a simple connector with two pins, two labels and two colors has pincount 1
C13_Witness ==
    /\ connector.st = "ok"
    /\ conn_cfg.style = StrV("simple")
    /\ conn_cfg.pincount = NoneV
    /\ conn_cfg.pins = <<1, 2>>
    /\ Len(conn_cfg.pinlabels) = 2
    /\ Len(conn_cfg.pincolors) = 2
    /\ connector.pincount = 1

\* the pins a Connector configuration stands for: its pins, or 1..pincount
\* (1 for style simple, else the pincount given, else the longest list)
PinsMeant(cfg) ==
    IF cfg.pins /= <<>> THEN {cfg.pins[i] : i \in 1..Len(cfg.pins)}
    ELSE IF cfg.style = StrV("simple") THEN {1}
    ELSE IF cfg.pincount.t = "int" /\ cfg.pincount.v /= 0 THEN 1..cfg.pincount.v
    ELSE 1..Max2(Len(cfg.pinlabels), Len(cfg.pincolors))

\* C14: of every constructed Connector each loop has exactly two pins, both
\* among its pins and both visible, and right after construction ports_left
\* and ports_right are false and no other pin is visible; a configuration
\* with a loop of another number of pins, or of a pin that is not among the
\* pins, fails construction.
C14_LoopsTwoVisiblePins ==
    Built =>
    /\ connector.st = "ok" =>
         /\ \A k \in 1..Len(connector.loops) :
              /\ Len(connector.loops[k]) = 2
              /\ \A i \in 1..2 :
                   LET pin == connector.loops[k][i]
                   IN /\ InList(pin, connector.pins)
                      /\ pin \in DOMAIN connector.visible_pins
                      /\ connector.visible_pins[pin] = TRUE
         /\ connector.ports_left = FALSE
         /\ connector.ports_right = FALSE
         /\ DOMAIN connector.visible_pins =
                {connector.loops[k][i] : k \in 1..Len(connector.loops), i \in 1..2}
    /\ (\E k \in 1..Len(conn_cfg.loops) :
            \/ Len(conn_cfg.loops[k]) /= 2
            \/ \E i \in 1..Len(conn_cfg.loops[k]) :
                   conn_cfg.loops[k][i] \notin PinsMeant(conn_cfg)) =>
         connector.st = "failed"

\* the loops (2, 1) and (1, 1) on the pins 2, 1: both pins visible
C14_Witness ==
    /\ connector.st = "ok"
    /\ connector.pins = <<2, 1>>
    /\ connector.loops = <<<<2, 1>>, <<1, 1>>>>
    /\ DOMAIN connector.visible_pins = {1, 2}
    /\ connector.visible_pins[2] = TRUE
    /\ ~connector.ports_left /\ ~connector.ports_right

CableBuilt == cable.st /= "new"

\* the identification fields of a Cable configuration that are lists
IdLists(cfg) ==
    {x \in {cfg.manufacturer, cfg.mpn, cfg.supplier, cfg.spn, cfg.pn} : x.t = "list"}

\* the wire count a Cable configuration stands for
WirecountMeant(cfg) ==
    IF cfg.wirecount.t = "int" /\ cfg.wirecount.v /= 0 THEN cfg.wirecount.v
    ELSE Len(cfg.colors)

\* C15: a Cable configuration with a list among manufacturer, mpn, supplier,
\* spn and pn is constructed only when its category is bundle and each such
\* list is as long as the final wirecount; a list on another category fails
\* (lists are only supported for bundles), and so does a list of another
\* length on a bundle (lists must match wirecount).
C15_IdListsNeedBundle ==
    (CableBuilt /\ IdLists(cable_cfg) /= {}) =>
    LET bundle == cable_cfg.category = StrV("bundle")
        fit == \A x \in IdLists(cable_cfg) : Len(x.v) = WirecountMeant(cable_cfg)
    IN /\ cable.st = "ok" =>
            /\ bundle /\ fit
            /\ \A x \in IdLists(cable_cfg) : Len(x.v) = cable.wirecount
       /\ (~bundle \/ ~fit) => cable.st = "failed"
       /\ (~bundle /\ WirecountMeant(cable_cfg) > 0) =>
            cable.err.msg = "lists of part data are only supported for bundles"
       /\ (bundle /\ ~fit /\ WirecountMeant(cable_cfg) > 0) =>
            cable.err.msg = "lists of part data must match wirecount"
       /\ (bundle /\ fit /\ WirecountMeant(cable_cfg) > 0) => cable.st = "ok"

\* a bundle of three wires with a pn list of two part numbers
C15_Witness ==
    /\ cable.st = "failed"
    /\ cable_cfg.category = StrV("bundle")
    /\ cable_cfg.wirecount = IntV(3)
    /\ cable_cfg.manufacturer = PartList(3)
    /\ cable_cfg.pn = PartList(2)
    /\ cable.err.msg = "lists of part data must match wirecount"

\* Reading a gauge or length text: its spaces, the parts around its one space,
\* and whether a part is written as a number (digits around at most one point)
Spaces(s) == {i \in 1..Len(s) : s[i] = " "}
OneSpace(s) == Cardinality(Spaces(s)) = 1
BeforeSpace(s) == SubSeq(s, 1, (CHOOSE i \in Spaces(s) : TRUE) - 1)
AfterSpace(s) == SubSeq(s, (CHOOSE i \in Spaces(s) : TRUE) + 1, Len(s))
IsDigit(c) == c \in Digits
IsNumeral(s) ==
    /\ SelectSeq(s, IsDigit) /= <<>>
    /\ \A i \in 1..Len(s) : s[i] \in Digits \/ s[i] = "."
    /\ \A i, j \in 1..Len(s) : (s[i] = "." /\ s[j] = ".") => i = j

\* the text is "<number> <unit>"
IsNumberAndUnit(s) == OneSpace(s) /\ IsNumeral(BeforeSpace(s))

\* the number of characters of a numeral behind its point
Decimals(s) ==
    IF \E i \in 1..Len(s) : s[i] = "."
    THEN Len(s) - (CHOOSE i \in 1..Len(s) : s[i] = ".")
    ELSE 0

\* the float x is the number the numeral s writes
IsValueOf(x, s) ==
    x.t = "float" /\ x.v * Pow10(Decimals(s)) = NatOf(SelectSeq(s, IsDigit)) * Pow10(x.e)

IsAWG(u) ==
    Len(u) = 3 /\ u[1] \in {"A", "a"} /\ u[2] \in {"W", "w"} /\ u[3] \in {"G", "g"}

GaugeError ==
    cable.st = "failed" /\
    cable.err.msg = "Cable {name} gauge={gauge} - Gauge must be a number, or number and unit separated by a space"

\* what C16 says of a gauge that is a bare number or "<number> <unit>"
GaugeOfNumberOrPair ==
    /\ (cable_cfg.gauge.t \in {"int", "float"} /\ cable_cfg.gauge_unit.t = "none") =>
         /\ cable.st = "ok"
         /\ cable.gauge = cable_cfg.gauge
         /\ cable.gauge_unit = TextV(<<"m", "m", "sup2">>)
    /\ (cable_cfg.gauge.t = "text" /\ IsNumberAndUnit(cable_cfg.gauge.v)) =>
         LET u == AfterSpace(cable_cfg.gauge.v)
         IN /\ cable.st = "ok"
            /\ cable.gauge = TextV(BeforeSpace(cable_cfg.gauge.v))
            /\ IsAWG(u) => cable.gauge_unit = TextV(<<"A", "W", "G">>)
            /\ u = <<"m", "m", "2">> => cable.gauge_unit = TextV(<<"m", "m", "sup2">>)
            /\ (~IsAWG(u) /\ \A i \in 1..Len(u) : u[i] /= "2") => cable.gauge_unit = TextV(u)

\* C16 as stated: a gauge without a unit, a bare number or a text that writes
\* a number such as "0.5", gives that gauge with the unit mm2-squared; a
\* gauge "<number> <unit>" gives the unit AWG for AWG in any letter case and
\* else the unit with mm2 replaced by the squared glyph.
C16_GaugeParsedTextNumber ==
    (CableBuilt /\ cable_cfg \in CableGaugeCfgs) =>
    /\ GaugeOfNumberOrPair
    /\ (cable_cfg.gauge.t = "text" /\ IsNumeral(cable_cfg.gauge.v)
            /\ cable_cfg.gauge_unit.t = "none") =>
         /\ cable.st = "ok"
         /\ cable.gauge_unit = TextV(<<"m", "m", "sup2">>)

\* C16, amended: a gauge given as a bare number, without a gauge_unit, gives
\* that gauge with the unit mm2-squared; a gauge "<number> <unit>" gives the
\* number part as the gauge and the unit AWG for AWG in any letter case, else
\* the unit with mm2 replaced by the squared glyph; a text that writes a
\* number without a unit, such as "0.5", fails construction.
C16_GaugeParsed ==
    (CableBuilt /\ cable_cfg \in CableGaugeCfgs) =>
    /\ GaugeOfNumberOrPair
    /\ (cable_cfg.gauge.t = "text" /\ IsNumeral(cable_cfg.gauge.v)) => GaugeError

\* the gauge "20 awg" beside a gauge_unit that is overridden
C16_Witness ==
    /\ cable.st = "ok"
    /\ cable_cfg.gauge = TextV(<<"2", "0", " ", "a", "w", "g">>)
    /\ cable.gauge = TextV(<<"2", "0">>)
    /\ cable.gauge_unit = TextV(<<"A", "W", "G">>)

\* C17: every gauge text that is not "<number> <unit>" (no space, more than
\* one space, or a first part that is no number) fails construction.
C17_MalformedGaugeFails ==
    (CableBuilt /\ cable_cfg.gauge.t = "text" /\ ~IsNumberAndUnit(cable_cfg.gauge.v)) =>
    cable.st = "failed"

LengthError ==
    cable.st = "failed" /\
    cable.err.msg = "Cable {name} length={length} - Length must be a number, or number and unit separated by a space"

\* C18: a bare number as length keeps its value, with the unit m when no
\* length_unit is given and else that length_unit; a text "<number> <unit>"
\* gives the value of the number and the unit of the text, whatever
\* length_unit is given; every other length fails construction: a text that
\* is not "<number> <unit>", and a value that is neither number nor text.
C18_LengthParsed ==
    (CableBuilt /\ cable_cfg \in CableLengthCfgs) =>
    LET l == cable_cfg.length
    IN /\ l.t \in {"int", "float"} =>
            /\ cable.st = "ok"
            /\ cable.length = l
            /\ cable.length_unit = IF cable_cfg.length_unit.t = "none"
                                   THEN TextV(<<"m">>)
                                   ELSE cable_cfg.length_unit
       /\ (l.t = "text" /\ IsNumberAndUnit(l.v)) =>
            /\ cable.st = "ok"
            /\ IsValueOf(cable.length, BeforeSpace(l.v))
            /\ cable.length_unit = TextV(AfterSpace(l.v))
       /\ (l.t = "text" /\ ~IsNumberAndUnit(l.v)) => LengthError
       /\ l.t \notin {"int", "float", "text"} =>
            /\ cable.st = "failed"
            /\ cable.err.msg = "Cable {name} length has a non-numeric value"

\* the length "2.5 m" beside the length_unit cm
C18_Witness ==
    /\ cable.st = "ok"
    /\ cable_cfg.length = TextV(<<"2", ".", "5", " ", "m">>)
    /\ cable_cfg.length_unit = TextV(<<"c", "m">>)
    /\ cable.length = FloatV(25, 1)
    /\ cable.length_unit = TextV(<<"m">>)

\* the color code of a Cable configuration is a name, and one outside the table
UnknownCode(cfg) ==
    cfg.color_code.t = "str" /\ cfg.color_code.v \notin {"", "BW", "T568A"}

WirecountGiven(cfg) == cfg.wirecount.t = "int" /\ cfg.wirecount.v /= 0

\* C19 as stated: every Cable configuration whose color code is no name of
\* the table fails construction, with or without wirecount and colors.
C19_UnknownCodeAlwaysFails ==
    (CableBuilt /\ UnknownCode(cable_cfg)) => cable.st = "failed"

\* C19, amended: a Cable configuration whose color code is no name of the
\* table fails construction (unknown color code) when it gives a wirecount
\* and no colors; when it gives colors the color code is not looked at and
\* the Cable is constructed with colors of its own palette, and when it gives
\* neither wirecount nor colors it fails for the unknown number of wires.
C19_UnknownCodeFailsWhenUsed ==
    (CableBuilt /\ UnknownCode(cable_cfg)) =>
    IF cable_cfg.colors /= <<>>
    THEN /\ cable.st = "ok"
         /\ \A i \in 1..Len(cable.colors) : InList(cable.colors[i], cable_cfg.colors)
    ELSE /\ cable.st = "failed"
         /\ cable.err.msg =
                IF WirecountGiven(cable_cfg) THEN "Unknown color code"
                ELSE "Unknown number of wires. Must specify wirecount or colors (implicit length)"

\* two wires, no colors and the color code XYZ
C19_Witness ==
    /\ cable.st = "failed"
    /\ cable_cfg.wirecount = IntV(2)
    /\ cable_cfg.colors = <<>>
    /\ cable_cfg.color_code = StrV("XYZ")
    /\ cable.err.msg = "Unknown color code"

\* C20: a Cable configuration without wirecount (none, or zero) is
\* constructed with the number of its colors as wirecount and its colors as
\* given; without colors too it fails construction for the unknown number of
\* wires, whatever color code it names.
C20_WirecountFromColors ==
    (CableBuilt /\ ~WirecountGiven(cable_cfg)) =>
    IF cable_cfg.colors /= <<>>
    THEN /\ cable.st = "ok"
         /\ cable.wirecount = Len(cable_cfg.colors)
         /\ cable.colors = cable_cfg.colors
    ELSE /\ cable.st = "failed"
         /\ cable.err.msg =
                "Unknown number of wires. Must specify wirecount or colors (implicit length)"

\* no wirecount, no colors and the color code BW
C20_Witness ==
    /\ cable.st = "failed"
    /\ cable_cfg.wirecount = NoneV
    /\ cable_cfg.colors = <<>>
    /\ cable_cfg.color_code = StrV("BW")
    /\ cable.err.msg =
           "Unknown number of wires. Must specify wirecount or colors (implicit length)"

ImageBuilt == last.op = "Image"

HasAttr(attrs, name) == \E k \in 1..Len(attrs) : attrs[k].name = name

Given(x) == x.t /= "none" /\ Truthy(x)

\* C21 as stated: an Image built without fixedsize has a true fixedsize (and
\* the attribute fixedsize="true" in its cell) if and only if exactly one of
\* width and height is given and scale is not; not when both are given.
C21_FixedsizeIffOneDimension ==
    (ImageBuilt /\ arg.fixedsize.t = "none") =>
    LET one == Given(arg.width) /= Given(arg.height)
    IN /\ Truthy(result.fixedsize) <=> (one /\ arg.scale.t = "none")
       /\ HasAttr(html_size_attr(result), "fixedsize")
              <=> (one /\ arg.scale.t = "none")

\* C21, amended: an Image built without fixedsize has a true fixedsize (and
\* the attribute fixedsize="true" in its cell) if and only if at least one of
\* width and height is given and scale is not; so also when both are given.
C21_FixedsizeIffAnyDimension ==
    (ImageBuilt /\ arg.fixedsize.t = "none") =>
    LET any == Given(arg.width) \/ Given(arg.height)
    IN /\ Truthy(result.fixedsize) <=> (any /\ arg.scale.t = "none")
       /\ (any /\ arg.scale.t = "none") => result.fixedsize = BoolV(TRUE)
       /\ HasAttr(html_size_attr(result), "fixedsize")
              <=> (any /\ arg.scale.t = "none")

\* width 3 and height 4 without scale: fixedsize true, scale both
C21_Witness ==
    /\ ImageBuilt
    /\ arg.fixedsize = NoneV /\ arg.scale = NoneV
    /\ arg.width = IntV(3) /\ arg.height = IntV(4)
    /\ result.fixedsize = BoolV(TRUE)
    /\ result.scale = StrV("both")
    /\ result.width = IntV(3) /\ result.height = IntV(4)

OptionsBuilt == last.op = "Options"

\* C22 as stated: each of bgcolor_node, bgcolor_connector, bgcolor_cable and
\* bgcolor_bundle that the caller did not pass has the final value of its
\* parent (bgcolor; bgcolor_node; bgcolor_node; bgcolor_cable), so that
\* Options with bgcolor alone has all four equal to that bgcolor.
C22_UnsuppliedTakesParent ==
    OptionsBuilt =>
    /\ arg.bgcolor_node.t = "absent" => result.bgcolor_node = result.bgcolor
    /\ arg.bgcolor_connector.t = "absent" => result.bgcolor_connector = result.bgcolor_node
    /\ arg.bgcolor_cable.t = "absent" => result.bgcolor_cable = result.bgcolor_node
    /\ arg.bgcolor_bundle.t = "absent" => result.bgcolor_bundle = result.bgcolor_cable

\* a background color is not set: not passed, or passed as None or empty
Unset(x) == x.t \in {"absent", "none"} \/ x = StrV("")

\* C22, amended: each of bgcolor_connector, bgcolor_cable and bgcolor_bundle
\* that is not passed, or passed as None or empty, has the final value of its
\* parent (bgcolor_node; bgcolor_node; bgcolor_cable), and every color passed
\* is kept; bgcolor_node has the value of bgcolor when it is passed as None
\* or empty, and its own default WH when it is not passed, so that Options
\* with bgcolor alone has all four equal to WH.
C22_FallbackChain ==
    OptionsBuilt =>
    /\ result.bgcolor = IF arg.bgcolor.t = "absent" THEN StrV("WH") ELSE arg.bgcolor
    /\ result.bgcolor_node =
           IF arg.bgcolor_node.t = "absent" THEN StrV("WH")
           ELSE IF Unset(arg.bgcolor_node) THEN result.bgcolor
           ELSE arg.bgcolor_node
    /\ result.bgcolor_connector =
           IF Unset(arg.bgcolor_connector) THEN result.bgcolor_node
           ELSE arg.bgcolor_connector
    /\ result.bgcolor_cable =
           IF Unset(arg.bgcolor_cable) THEN result.bgcolor_node ELSE arg.bgcolor_cable
    /\ result.bgcolor_bundle =
           IF Unset(arg.bgcolor_bundle) THEN result.bgcolor_cable ELSE arg.bgcolor_bundle

\* Options(bgcolor="RD"): the four colors are WH
C22_Witness ==
    /\ OptionsBuilt
    /\ arg.bgcolor = StrV("RD")
    /\ arg.bgcolor_node = Absent /\ arg.bgcolor_connector = Absent
    /\ arg.bgcolor_cable = Absent /\ arg.bgcolor_bundle = Absent
    /\ result.bgcolor_node = StrV("WH") /\ result.bgcolor_connector = StrV("WH")
    /\ result.bgcolor_cable = StrV("WH") /\ result.bgcolor_bundle = StrV("WH")

Expanded == last.op = "expand"

\* the text of a token
TokenText(tok) == PyStr(tok)

\* a text that reads as an integer: digits, after a minus sign or not
IsInteger(s) ==
    \/ s /= <<>> /\ IsDigits(s)
    \/ Len(s) > 1 /\ s[1] = "-" /\ IsDigits(Tail(s))

\* the integer a text reads as
IntegerOf(s) == IF s[1] = "-" THEN 0 - NatOf(Tail(s)) ELSE NatOf(s)

\* the inclusive run of integers from a to b, up or down
Run(a, b) ==
    [i \in 1..((IF a <= b THEN b - a ELSE a - b) + 1) |->
        IntV(IF a <= b THEN a + (i - 1) ELSE a - (i - 1))]

\* the text has the shape <int>-<int>, the hyphen being its k-th character
IsRangeAt(s, k) ==
    /\ k \in 1..Len(s)
    /\ s[k] = "-"
    /\ IsInteger(SubSeq(s, 1, k - 1))
    /\ IsInteger(SubSeq(s, k + 1, Len(s)))

\* the text has the shape <int>-<int>, the hyphen being the first one of it
IsRange(s) ==
    \E k \in 1..Len(s) : IsRangeAt(s, k) /\ \A j \in 1..(k - 1) : s[j] /= "-"

\* the run a text of the shape <int>-<int> stands for
RangeOf(s) ==
    LET k == CHOOSE i \in 1..Len(s) : IsRangeAt(s, i) /\ \A j \in 1..(i - 1) : s[j] /= "-"
    IN Run(IntegerOf(SubSeq(s, 1, k - 1)), IntegerOf(SubSeq(s, k + 1, Len(s))))

\* the concatenation of the pieces of the tokens, in input order
RECURSIVE Pieces(_, _)
Pieces(piece, toks) ==
    IF toks = <<>> THEN <<>> ELSE piece[Head(toks)] \o Pieces(piece, Tail(toks))

\* the tokens of an argument of expand
TokensOf(a) == IF a.t = "list" THEN a.v ELSE <<a>>

\* the set of the tokens of an argument of expand
TokenSet(a) == {TokensOf(a)[i] : i \in 1..Len(TokensOf(a))}

\* C23 as stated: expand returns the concatenation in input order of one
\* piece per token: the inclusive run for a token <int>-<int>, the integer
\* for any other token that reads as an integer (a negative one such as "-5"
\* included), and the token unchanged as text for every remaining token.
C23_PiecesNegativeIsInteger ==
    Expanded =>
    LET piece == [tok \in TokenSet(arg) |->
                    LET s == TokenText(tok)
                    IN IF IsRange(s) THEN RangeOf(s)
                       ELSE IF IsInteger(s) THEN <<IntV(IntegerOf(s))>>
                       ELSE <<TextV(s)>>]
    IN result = ListV(Pieces(piece, TokensOf(arg)))

\* C23, amended: expand returns the concatenation in input order of one piece
\* per token: the inclusive ascending or descending run for a token whose
\* text is <int>-<int> around its first hyphen (one value when the bounds are
\* equal), the integer for a token without a hyphen that reads as an integer,
\* and the text of the token for every remaining token, a negative integer
\* such as "-5" included.
C23_PiecesNegativeIsText ==
    Expanded =>
    LET piece == [tok \in TokenSet(arg) |->
                    LET s == TokenText(tok)
                    IN IF IsRange(s) THEN RangeOf(s)
                       ELSE IF IsInteger(s) /\ s[1] /= "-" THEN <<IntV(IntegerOf(s))>>
                       ELSE <<TextV(s)>>]
    IN result = ListV(Pieces(piece, TokensOf(arg)))

\* expand(["-3", "3-1"]) is ["-3", 3, 2, 1]
C23_Witness ==
    /\ Expanded
    /\ arg = ListV(<<TextV(<<"-", "3">>), TextV(<<"3", "-", "1">>)>>)
    /\ result = ListV(<<TextV(<<"-", "3">>), IntV(3), IntV(2), IntV(1)>>)

\* the message of an error names the designator: the name is one of the
\* values put into the text of the message
NamesDesignator(err, name) ==
    \E i \in 1..Len(err.args) : err.args[i] = StrV(name)

\* C24: the message of every configuration error of the construction of a
\* Connector (pins not unique, pin count of a simple connector, no pin
\* information, bad loop) names the designator of the connector.
C24_ErrorNamesDesignator ==
    connector.st = "failed" => NamesDesignator(connector.err, conn_cfg.name)

\* the last step was a call of activate_pin
Activated == last.op = "Connector.activate_pin"

\* C25: a call activate_pin(pin, side) that repeats the call before it leaves
\* the connector as it was, and a call for a pin that is visible already
\* leaves visible_pins and every other field as they were, except that the
\* flag of its side is true afterwards.
C25_ActivateIdempotent ==
    [][(last'.op = "Connector.activate_pin") =>
          LET pin == last'.args[1].v
              side == last'.args[2].v
          IN /\ (Activated /\ last.args = last'.args) => connector' = connector
             /\ (pin \in DOMAIN connector.visible_pins /\ connector.visible_pins[pin]) =>
                   connector' =
                       [connector EXCEPT
                           !.ports_left = connector.ports_left \/ side = "LEFT",
                           !.ports_right = connector.ports_right \/ side = "RIGHT"]]_vars

\* pin 1 was activated on the left and then on the right
C25_Witness ==
    /\ Activated
    /\ last.args = <<IntV(1), StrV("RIGHT")>>
    /\ DOMAIN connector.visible_pins = {1}
    /\ connector.visible_pins[1]
    /\ connector.ports_left /\ connector.ports_right

\* the three fields of a Connector that tell which pins and sides are in use
PinState(c) ==
    [visible_pins |-> c.visible_pins, ports_left |-> c.ports_left,
     ports_right |-> c.ports_right]

\* C26: a Connector without loops has no visible pin and no port side right
\* after construction; afterwards no step but a call of activate_pin changes
\* visible_pins, ports_left or ports_right (not get_qty_multiplier, not the
\* construction of a Cable nor connect on a Cable that names the connector),
\* and a side flag that is true stays true.
C26_OnlyActivateChangesPins ==
    [][/\ (connector.st = "new" /\ connector'.st = "ok" /\ conn_cfg.loops = <<>>) =>
            PinState(connector') =
                [visible_pins |-> <<>>, ports_left |-> FALSE, ports_right |-> FALSE]
       /\ (connector.st = "ok" /\ last'.op /= "Connector.activate_pin") =>
            /\ connector'.st = "ok"
            /\ PinState(connector') = PinState(connector)
       /\ connector.st = "ok" =>
            /\ connector'.st = "ok"
            /\ connector.ports_left => connector'.ports_left
            /\ connector.ports_right => connector'.ports_right]_vars

\* pin 1 of a connector without loops was activated on both sides, and the
\* cable was connected to the connector afterwards
C26_Witness ==
    /\ last.op = "Cable.connect"
    /\ last.out.ok
    /\ Len(cable.connections) > 0
    /\ connector.st = "ok"
    /\ conn_cfg.loops = <<>>
    /\ DOMAIN connector.visible_pins = {1}
    /\ connector.ports_left /\ connector.ports_right

\* C27: a second Connector (or Cable) constructed from a configuration mapping
\* with the content of the first one's, or from the very mapping the first
\* one was constructed from, has the same derived state as the first, field
\* for field, and fails the same way if the first one failed.
C27_RebuildIdentical ==
    /\ last.op = "Cable again" => result = cable
    /\ last.op = "Connector again" => result = connector

\* a Connector with loops whose additional_components were given as a dict
\* was built twice from the same mapping
C27_Witness ==
    /\ last.op = "Connector again"
    /\ last.args = <<StrV("same mapping")>>
    /\ connector.st = "ok"
    /\ result = connector
    /\ connector.visible_pins = (1 :> TRUE @@ 2 :> TRUE)
    /\ arg.additional_components = <<[t |-> "dict", type |-> StrV("Fuse")]>>
    /\ conn_cfg.additional_components =
           <<[t |-> "AdditionalComponent", type |-> StrV("Fuse"), qty |-> IntV(1)]>>
    /\ connector.additional_components = conn_cfg.additional_components

\* the pin count of the connector was derived from its lists
PincountDerived ==
    /\ connector.st = "ok"
    /\ ~Truthy(conn_cfg.pincount)
    /\ conn_cfg.style /= StrV("simple")

\* every pin activate_pin was called with is a pin of the connector
ActivatedOwnPins == \A p \in activated : InList(p, connector.pins)

\* C28: for a Connector whose pincount was derived, after construction and
\* any calls of activate_pin with pins of the connector, the number of
\* visible pins is at most pincount, and get_qty_multiplier("populated") +
\* get_qty_multiplier("unpopulated") = pincount.
C28_VisibleWithinPincount ==
    (PincountDerived /\ ActivatedOwnPins) =>
    /\ Cardinality(DOMAIN connector.visible_pins) <= connector.pincount
    /\ ConnectorGetQtyMultiplier(connector, StrV("populated")).val.v
         + ConnectorGetQtyMultiplier(connector, StrV("unpopulated")).val.v
       = connector.pincount

\* both pins of a connector given by its pins were activated, and populated
\* is 2
C28_Witness ==
    /\ PincountDerived
    /\ conn_cfg.pins = <<1, 2>>
    /\ activated = {1, 2}
    /\ connector.pincount = 2
    /\ last.op = "Connector.get_qty_multiplier"
    /\ last.args = <<StrV("populated")>>
    /\ last.out = Ok(IntV(2))

\* C29: a call of Cable.connect that fails, for whatever reason (via_wire
\* with fewer elements than from_pin and to_pin included), leaves the
\* connections of the cable as they were before the call.
C29_FailedConnectAddsNothing ==
    [][(last'.op = "Cable.connect" /\ ~last'.out.ok) =>
          cable'.connections = cable.connections]_vars

\* C30: in the mapping merge_with_existing returns, every key that
\* existing_data holds with a non-empty value (an existing _image_url or
\* _datasheet_url included) has that value; fetched values only fill keys
\* that were absent or empty.
C30_ExistingValuesKept ==
    last.op = "merge_with_existing" =>
    \A key \in DOMAIN arg.existing_data :
        Truthy(DictGet(arg.existing_data, key)) => result[key] = arg.existing_data[key]

=============================================================================
